---- MODULE Spec2Model ----
(***************************************************************************)
(* A model of KarpelesLab/apirouter: the dispatcher (Context.Call), the    *)
(* response pipeline (Context.Response), the WebSocket broadcast bus and   *)
(* the per-connection writers of the long-lived transports.                *)
(***************************************************************************)
EXTENDS Integers, Sequences, FiniteSets, TLC

\* ------------------------------------------------------------------ bounds

\* Largest number of registered request hooks, and of response hooks.
MaxHooks == 2

\* ------------------------------------------------------------- any-values
\* Go's `any` values are records with a "kind" field, so that any two of
\* them can be compared.

Nil == [kind |-> "nil"]

\* The sentinel `true` the walk stores in obj under OPTIONS.
CorsSentinel == [kind |-> "true", caps |-> {}]

\* A fetched object; caps are the capabilities (Updatable, Deletable) its type has.
Object(class, id, caps) == [kind |-> "object", class |-> class, id |-> id, caps |-> caps]

\* What an action (List, Create, Clear, a static method) returned.
ResultOf(op) == [kind |-> "result", of |-> op]

\* The *Response of the WebSocket upgrade, which prepareWebsocket makes with
\* ctx and subhandler set.  ctx is "c", the Context of the request, or ""
\* for nil.
UserResponse ==
  [kind |-> "response", Result |-> "upgrade", Code |-> 101, Error |-> "",
   Token |-> "", ErrorInfo |-> "", Debug |-> "", Data |-> Nil, RedirectURL |-> "",
   QueryId |-> "", ctx |-> "c", subhandler |-> TRUE]

\* A *Response an action of the application makes: &Response{...}, whose
\* unexported ctx and subhandler it cannot set.
AppResponse ==
  [kind |-> "response", Result |-> "success", Code |-> 200, Error |-> "",
   Token |-> "", ErrorInfo |-> "", Debug |-> "", Data |-> Nil, RedirectURL |-> "",
   QueryId |-> "", ctx |-> "", subhandler |-> FALSE]

\* The *Response values an action returns as its result.
UserResponses == {UserResponse, AppResponse}

\* ------------------------------------------------------------------ errors
\* typ is the Go type of the error value: "Error" (*apirouter.Error),
\* "HttpError" (webutil.HttpError), "Redirect" (*webutil.Redirect),
\* "Options" (*optionsResponder), "plain" (errors.New), "panic" (fmt.Errorf
\* in the recovery), "wrapped" (fmt.Errorf with %w around an
\* *apirouter.Error).  status is what webutil.HTTPStatus gives for it; token
\* and info are the Token and Info of the Error value in its unwrap chain,
\* info "" being a nil Info.

NoErr == [kind |-> "noerr"]

ErrNotFound == [kind |-> "err", typ |-> "Error", msg |-> "Not found",
                status |-> 404, token |-> "error_not_found", allowed |-> <<>>, info |-> ""]

ErrAccessDenied == [kind |-> "err", typ |-> "Error", msg |-> "Access denied",
                    status |-> 403, token |-> "error_access_denied", allowed |-> <<>>, info |-> ""]

ErrMethodNotAllowed == [kind |-> "err", typ |-> "HttpError", msg |-> "Method Not Allowed",
                        status |-> 405, token |-> "", allowed |-> <<>>, info |-> ""]

ErrPlain == [kind |-> "err", typ |-> "plain", msg |-> "failed",
             status |-> 0, token |-> "", allowed |-> <<>>, info |-> ""]

ErrRedirect == [kind |-> "err", typ |-> "Redirect", msg |-> "redirect",
                status |-> 302, token |-> "", allowed |-> <<>>, info |-> ""]

optionsResponder(methods) == [kind |-> "err", typ |-> "Options", msg |-> "Options responder",
                              status |-> 0, token |-> "", allowed |-> methods, info |-> ""]

ErrPanic == [kind |-> "err", typ |-> "panic", msg |-> "panic",
             status |-> 0, token |-> "", allowed |-> <<>>, info |-> ""]

\* &Error{Message: "rejected", Token: "error_rejected", Info: details}: an
\* Error of the application, with Info and without Code.
ErrWithInfo == [kind |-> "err", typ |-> "Error", msg |-> "rejected",
                status |-> 0, token |-> "error_rejected", allowed |-> <<>>,
                info |-> "details"]

\* fmt.Errorf("while saving: %w", ErrWithInfo)
ErrWrapped == [kind |-> "err", typ |-> "wrapped", msg |-> "while saving: rejected",
               status |-> 0, token |-> "error_rejected", allowed |-> <<>>,
               info |-> "details"]

\* The errors hooks, actions and objects of the application return.
UserErrors == {ErrAccessDenied, ErrPlain, ErrRedirect, ErrWithInfo, ErrWrapped}

\* ------------------------------------------------------------ the request
\* A path is a sequence of tokens: "/" and ":" are the separator bytes, every
\* other token is a run of bytes holding neither.

UserTok == "User"
ItemTok == "Item"

\* The runs whose first byte is in 'A'..'Z'.
UpperToks == {"User", "Item", "Unknown"}

Paths ==
  { <<>>,
    <<"User">>,
    <<"User", "/", "123">>,
    <<"User", "/", "123", "/", "456">>,
    <<"User", "/", "/", "123">>,
    <<"User", "/", "Unknown">>,
    <<"User", "/", "123", "/", "Item">>,
    <<"User", "/", "123", "/", "Item", "/", "7">>,
    <<"123">>,
    <<"User", ":", "method">>,
    <<"User", ":", "nomethod">>,
    <<"User", "/", "123", ":", "method">>,
    <<"User", "/", "123", ":", "nomethod">>,
    <<"User", ":", "a", "/", "1", ":", "method">> }

Verbs == {"GET", "HEAD", "POST", "PATCH", "PUT", "DELETE", "OPTIONS"}

\* c.params, as opposed to a nil argument.
Params == [kind |-> "params"]

\* ----------------------------------------------------- the object registry
\* pobj: a tree of classes.  root has one child, User; User has one child,
\* Item.  root has no actions (Action == nil); User's actions are an input
\* of the model; Item has Fetch and List.

ActionNames == {"Fetch", "List", "Create", "Clear"}

\* An *ObjectActions: present is FALSE for a nil pointer.
NoActions == [present |-> FALSE, set |-> {}]

Actions(S) == [present |-> TRUE, set |-> S]

ActionConfigs ==
  { NoActions, Actions({}), Actions({"Fetch"}), Actions({"List", "Create", "Clear"}),
    Actions({"Fetch", "List"}), Actions(ActionNames) }

\* r.Child(s): the node, or "" when there is none.
Child(node, s) ==
  IF node = "root" /\ s = <<UserTok>> THEN "User"
  ELSE IF node = "User" /\ s = <<ItemTok>> THEN "Item"
  ELSE ""

\* r.Static(m): whether class node has a static method named m.
Static(node, m) == node = "User" /\ m = <<"method">>

\* ---------------------------------------------------------- path parsing

SetMax(S) == CHOOSE x \in S : \A y \in S : y <= x

SetMin(S) == CHOOSE x \in S : \A y \in S : x <= y

\* strings.LastIndexByte, 1-based: 0 when the byte does not occur.
LastIndexByte(p, ch) ==
  LET I == {i \in 1..Len(p) : p[i] = ch}
  IN  IF I = {} THEN 0 ELSE SetMax(I)

\* strings.Split: the pieces between the separators, empty ones included.
RECURSIVE Split(_, _)
Split(p, sep) ==
  LET I == {i \in 1..Len(p) : p[i] = sep}
  IN  IF I = {} THEN <<p>>
      ELSE <<SubSeq(p, 1, SetMin(I) - 1)>> \o Split(SubSeq(p, SetMin(I) + 1, Len(p)), sep)

\* method: whether the path holds a ':'.
HasMethod(p) == LastIndexByte(p, ":") # 0

\* m: what follows the last ':'.
MethodName(p) == SubSeq(p, LastIndexByte(p, ":") + 1, Len(p))

\* ps: the segments of what precedes the last ':'.
Segments(p) ==
  Split(IF HasMethod(p) THEN SubSeq(p, 1, LastIndexByte(p, ":") - 1) ELSE p, "/")

\* s[0] >= 'A' && s[0] <= 'Z'
IsClassName(s) == Len(s) > 0 /\ s[1] \in UpperToks

\* ------------------------------------------------------- Call: the plans
\* What Call does next, as a record: the guards of the code, in its order.

Fail(e) == [do |-> "fail", err |-> e]

Invoke(op, arg) == [do |-> "invoke", op |-> op, arg |-> arg]

Options(methods) == [do |-> "options", err |-> optionsResponder(methods)]

ReturnObj == [do |-> "return_obj"]

\* The receiver's Context, the argument of ApiUpdate and ApiDelete.
CtxArg == [kind |-> "ctx"]

\* struct{ Id string }{Id: s}
IdArg(s) == [kind |-> "id", id |-> s]

\* WalkPlan without the test of corsReq: the object is fetched under OPTIONS too.
WalkPlanFetchAlways(v, node, o, s, acts) ==
  IF Len(s) = 0 THEN [do |-> "skip"]
  ELSE IF IsClassName(s) /\ Child(node, s) # "" THEN [do |-> "descend", to |-> Child(node, s)]
  ELSE IF o # Nil THEN Fail(ErrNotFound)
  ELSE IF ~acts.present THEN Fail(ErrNotFound)
  ELSE IF "Fetch" \notin acts.set THEN Fail(ErrNotFound)
  ELSE Invoke("Fetch", IdArg(s))

\* WalkPlan without the test of obj: an id after an id is fetched as well.
WalkPlanIdAfterId(v, node, o, s, acts) ==
  IF Len(s) = 0 THEN [do |-> "skip"]
  ELSE IF IsClassName(s) /\ Child(node, s) # "" THEN [do |-> "descend", to |-> Child(node, s)]
  ELSE IF ~acts.present THEN Fail(ErrNotFound)
  ELSE IF "Fetch" \notin acts.set THEN Fail(ErrNotFound)
  ELSE IF v = "OPTIONS" THEN [do |-> "cors"]
  ELSE Invoke("Fetch", IdArg(s))

\* One iteration of `for _, s := range ps`.
WalkPlan(v, node, o, s, acts) ==
  IF Len(s) = 0 THEN [do |-> "skip"]
  ELSE IF IsClassName(s) /\ Child(node, s) # "" THEN [do |-> "descend", to |-> Child(node, s)]
  ELSE IF o # Nil THEN Fail(ErrNotFound)
  ELSE IF ~acts.present THEN Fail(ErrNotFound)
  ELSE IF "Fetch" \notin acts.set THEN Fail(ErrNotFound)
  ELSE IF v = "OPTIONS" THEN [do |-> "cors"]
  ELSE Invoke("Fetch", IdArg(s))

\* `if method { ... }`
StaticPlan(v, node, m) ==
  IF v = "OPTIONS" THEN Options(<<"GET", "POST", "HEAD", "OPTIONS">>)
  ELSE IF ~Static(node, m) THEN Fail(ErrNotFound)
  ELSE IF v \in {"HEAD", "GET", "POST"} THEN Invoke("Static", Params)
  ELSE Fail(ErrMethodNotAllowed)

\* `if obj != nil { ... }`
InstancePlan(v, o) ==
  IF v = "OPTIONS" THEN Options(<<"GET", "HEAD", "OPTIONS", "PATCH", "DELETE">>)
  ELSE IF v \in {"HEAD", "GET"} THEN ReturnObj
  ELSE IF v = "PATCH"
    THEN IF "Updatable" \in o.caps THEN Invoke("ApiUpdate", CtxArg)
         ELSE Fail(ErrMethodNotAllowed)
  ELSE IF v = "DELETE"
    THEN IF "Deletable" \in o.caps THEN Invoke("ApiDelete", CtxArg)
         ELSE Fail(ErrMethodNotAllowed)
  ELSE Fail(ErrMethodNotAllowed)

\* CollectionPlan with the actions called with a nil argument instead of c.params.
CollectionPlanNilArg(v, acts) ==
  IF ~acts.present THEN Fail(ErrNotFound)
  ELSE IF v = "OPTIONS" THEN Options(<<"GET", "HEAD", "OPTIONS", "POST", "DELETE">>)
  ELSE IF v \in {"HEAD", "GET"}
    THEN IF "List" \in acts.set THEN Invoke("List", Nil) ELSE Fail(ErrMethodNotAllowed)
  ELSE IF v = "POST"
    THEN IF "Create" \in acts.set THEN Invoke("Create", Nil) ELSE Fail(ErrMethodNotAllowed)
  ELSE IF v = "DELETE"
    THEN IF "Clear" \in acts.set THEN Invoke("Clear", Nil) ELSE Fail(ErrMethodNotAllowed)
  ELSE Fail(ErrMethodNotAllowed)

\* The end of Call: the class itself.
CollectionPlan(v, acts) ==
  IF ~acts.present THEN Fail(ErrNotFound)
  ELSE IF v = "OPTIONS" THEN Options(<<"GET", "HEAD", "OPTIONS", "POST", "DELETE">>)
  ELSE IF v \in {"HEAD", "GET"}
    THEN IF "List" \in acts.set THEN Invoke("List", Params) ELSE Fail(ErrMethodNotAllowed)
  ELSE IF v = "POST"
    THEN IF "Create" \in acts.set THEN Invoke("Create", Params) ELSE Fail(ErrMethodNotAllowed)
  ELSE IF v = "DELETE"
    THEN IF "Clear" \in acts.set THEN Invoke("Clear", Params) ELSE Fail(ErrMethodNotAllowed)
  ELSE Fail(ErrMethodNotAllowed)

\* DispatchPlan with the instance branch tested before the static-method branch.
DispatchPlanInstanceFirst(v, p, node, o, acts) ==
  IF o # Nil THEN InstancePlan(v, o)
  ELSE IF HasMethod(p) THEN StaticPlan(v, node, MethodName(p))
  ELSE CollectionPlan(v, acts)

\* What follows the walk.
DispatchPlan(v, p, node, o, acts) ==
  IF HasMethod(p) THEN StaticPlan(v, node, MethodName(p))
  ELSE IF o # Nil THEN InstancePlan(v, o)
  ELSE CollectionPlan(v, acts)

\* ---------------------------------------------------------- the envelope

VARIABLES
  frame,      \* what the WebSocket frame of the request decodes to: "object",
              \* "null" or "undecodable"; "" for an HTTP request
  frameQid,   \* the query_id of the frame the request came in; "" for an
              \* HTTP request, which comes in no frame
  qid         \* c.qid; "" while it is nil

\* What the bytes of a WebSocket frame are to the decoder: an object (with
\* or without a path), the value null, or nothing it can decode.
FrameKinds == {"object", "null", "undecodable"}

\* The query ids a client gives its frames.
QueryIds == {"q1"}

Response(result, code, errmsg, token, debug, data, url) ==
  [kind |-> "response", Result |-> result, Code |-> code, Error |-> errmsg,
   Token |-> token, ErrorInfo |-> "", Debug |-> debug, Data |-> data,
   RedirectURL |-> url, QueryId |-> qid, ctx |-> "c", subhandler |-> FALSE]

errorResponse(e) ==
  IF e.typ = "Redirect"
  THEN Response("redirect", 0, "", "", "", Nil, "url")
  ELSE [Response("error", IF e.status = 0 THEN 500 ELSE e.status, e.msg,
                 IF e.typ = "Error" THEN e.token ELSE "", "", Nil, "")
          EXCEPT !.ErrorInfo = IF e.typ = "Error" THEN e.info ELSE ""]

\* The Response the deferred recovery of Response() builds.
panicResponse == Response("error", 500, "panic", "", "stack", Nil, "")

successResponse(val) == Response("success", 200, "", "", "", val, "")

\* ================================================================ state

VARIABLES
  \* --- one request through Context.Response()
  path,       \* c.path
  verb,       \* c.verb
  userActs,   \* the Action of class User in the registry
  nReq,       \* len(RequestHooks)
  nResp,      \* len(ResponseHooks)
  pc,         \* where Response() is
  hi,         \* index of the next hook to run
  si,         \* index of the next path segment of the walk
  r,          \* Call's r: the current class
  obj,        \* Call's obj
  rawFlag,    \* c.flags["raw"]
  objects,    \* c.objects: the classes an object is cached for
  invoked,    \* every hook, action and method invoked so far, in order
  callRes,    \* what Call returned: [val, err]
  branch,     \* which branch of Response() built res
  res,        \* Response()'s res
  retErr,     \* Response()'s err
  origin,     \* the Origin header of the HTTP request, "" when it has none
  headers     \* the headers Response.ServeHTTP has set, Nil before it

pvars == <<origin, headers, frame, frameQid, qid, path, verb, userActs, nReq, nResp, pc, hi, si, r, obj, rawFlag,
           objects, invoked, callRes, branch, res, retErr>>

VARIABLES
  \* --- the WebSocket broadcast bus and its clients
  scen,       \* what happens around the bus: "topics", "flood", "cancel", "tree", "ids"
  wsDataQ,    \* the ring: the events it still holds, oldest first
  nPub,       \* the events published so far (counted in "topics" only)
  events,     \* per client: the events map of its top-most Context
  accept,     \* per client: c.accept[0], the negotiated media type
  rd,         \* per client: the ring reader of its wsListen
  lpc,        \* per client: where its wsListen is
  sock,       \* per client: whether its socket accepts a write now
  frames      \* per client: the frames wsListen wrote, in order

bvars == <<scen, wsDataQ, nPub, events, accept, rd, lpc, sock, frames>>

VARIABLES
  \* --- one long-lived connection and its writers
  ckind,      \* "json" (stream socket, jsonclient) or "ws" (WebSocket)
  req,        \* per frame: where its request is, and its Progress calls
  waiting,    \* the writers that called the write and have not begun it
  inWrite,    \* the writers inside the write
  wlk,        \* the write lock: TRUE when held
  nBc,        \* the broadcasts sent to the connection so far
  wire,       \* the envelopes written to the connection, in order
  negotiated, \* c.accept[0] of a WebSocket: the media type chosen at upgrade
  mt,         \* per frame: the message type it was read with, "" before that
  wtype       \* per envelope of wire: the message type it was written with

cvars == <<ckind, req, waiting, inWrite, wlk, nBc, wire, negotiated, mt, wtype>>

VARIABLES
  \* --- the life of that connection
  loop,       \* its handler: "start", "running" (in its loop) or "ended"
  registered, \* whether the client is in wsClients / jsonClients
  closed,     \* whether its socket has been closed
  cancelled   \* the requests whose Context is done

lvars == <<loop, registered, closed, cancelled>>

VARIABLES
  \* --- the Contexts of the WebSocket clients, and those made from them
  up,         \* per later Context: the Context it was made from, 0 if none
  done,       \* per client: whether its Context is done
  made,       \* per Context: the constructor that made it, "" before that
  carried,    \* per Context: the request_id of the carrier it was made from
  reqid,      \* per Context: c.reqid
  uuids,      \* how many times uuid.NewRandom() has been called
  wrapped,    \* whether the HTTP handler is wrapped by WithObject
  omap,       \* per Context: which map c.objects is
  heap,       \* per map: its entries
  nSet,       \* how many times requests have called a setter so far
  sec         \* per Context: c.user, c.csrfOk and c.showProt

tvars == <<up, done, made, carried, reqid, uuids, wrapped, omap, heap, nSet, sec>>

VARIABLES
  \* --- one HTTP request through SetHttp
  hreq,       \* the *http.Request and the Context SetHttp is called with
  hres,       \* what SetHttp returned and left in the Context
  hpc         \* "new" before SetHttp, "done" after it

hvars == <<hreq, hres, hpc>>

VARIABLES
  \* --- one call of a method that only reads its receiver and arguments
  fn,         \* the method called, "none" when there is no call
  farg,       \* its receiver and arguments
  fout        \* what it returned or left in its arguments, Nil before it

fvars == <<fn, farg, fout>>

vars == <<pvars, bvars, cvars, lvars, tvars, hvars, fvars>>

\* The Action of a class of the registry.
ActionOf(node) ==
  IF node = "User" THEN userActs
  ELSE IF node = "Item" THEN Actions({"Fetch", "List"})
  ELSE NoActions

\* An entry of the log: what was invoked, on which class, with which argument,
\* and the error it returned (NoErr for none, ErrPanic when it panicked).
Invocation(op, node, arg, err) == [op |-> op, node |-> node, arg |-> arg, err |-> err]

Hook(kind, i, err) == Invocation(kind, "", [kind |-> "hook", i |-> i], err)

\* ------------------------------------------------------------ Response()

InitPipeline ==
  /\ origin = ""
  /\ headers = Nil
  /\ frame \in {""} \cup FrameKinds
  /\ frameQid \in {""} \cup QueryIds
  /\ frameQid # "" <=> frame = "object"
  /\ qid = ""
  /\ path \in Paths
  /\ verb \in Verbs
  /\ userActs \in ActionConfigs
  /\ nReq \in 0..MaxHooks
  /\ nResp \in 0..MaxHooks
  /\ frame \in {"null", "undecodable"} => (path = <<>> /\ verb = "GET")
  /\ pc = IF frame = "" THEN "reqhooks" ELSE "frame"
  /\ hi = 1
  /\ si = 1
  /\ r = "root"
  /\ obj = Nil
  /\ rawFlag = FALSE
  /\ objects = {}
  /\ invoked = <<>>
  /\ callRes = [val |-> Nil, err |-> NoErr]
  /\ branch = "none"
  /\ res = Nil
  /\ retErr = NoErr

\* errors.New("path is missing")
ErrPathMissing == [kind |-> "err", typ |-> "plain", msg |-> "path is missing",
                   status |-> 0, token |-> "", allowed |-> <<>>, info |-> ""]

\* What cbor.Unmarshal or pjson.Unmarshal returns for bytes it cannot decode.
ErrDecode == [kind |-> "err", typ |-> "plain", msg |-> "invalid character",
              status |-> 0, token |-> "", allowed |-> <<>>, info |-> ""]

\* NewChild on a WebSocket frame: SetBytes decodes it and setChildRequest
\* copies it into the Context.  On its error handleWebsocket answers
\* subCtx.errorResponse(err), and Response() is not run.  The value null
\* decodes without error and leaves `in` nil: setChildRequest panics on
\* in.Path, outside Response() and its recover, and handleWebsocket ends
\* with nothing written.
setChildRequest ==
  /\ pc = "frame"
  /\ IF frame = "undecodable"
       THEN /\ res' = errorResponse(ErrDecode)
            /\ retErr' = ErrDecode
            /\ branch' = "frame"
            /\ pc' = "done"
            /\ UNCHANGED qid
       ELSE IF frame = "null"
       THEN /\ pc' = "crashed"
            /\ UNCHANGED <<res, retErr, branch, qid>>
       ELSE IF path = <<>>
       THEN /\ res' = errorResponse(ErrPathMissing)
            /\ retErr' = ErrPathMissing
            /\ branch' = "frame"
            /\ pc' = "done"
            /\ UNCHANGED qid
       ELSE /\ qid' = frameQid
            /\ pc' = "reqhooks"
            /\ UNCHANGED <<res, retErr, branch>>
  /\ UNCHANGED <<origin, headers, frame, frameQid, path, verb, userActs, nReq, nResp, hi, si,
                 r, obj, rawFlag, objects, invoked, callRes>>
  /\ UNCHANGED <<bvars, cvars, lvars, tvars, hvars, fvars>>

\* The deferred recover(): whatever panicked, Response() returns this.
Recovered ==
  /\ res' = panicResponse
  /\ retErr' = ErrPanic
  /\ pc' = "done"

\* RequestHook with the hook's error dropped, as the response hooks of a
\* success are run.
RequestHookNoAbort ==
  /\ pc = "reqhooks"
  /\ hi <= nReq
  /\ \/ /\ invoked' = Append(invoked, Hook("RequestHook", hi, NoErr))
        /\ hi' = hi + 1
        /\ UNCHANGED <<pc, res, retErr>>
     \/ \E e \in UserErrors :
          /\ invoked' = Append(invoked, Hook("RequestHook", hi, e))
          /\ hi' = hi + 1
          /\ UNCHANGED <<pc, res, retErr>>
     \/ /\ invoked' = Append(invoked, Hook("RequestHook", hi, ErrPanic))
        /\ Recovered
        /\ UNCHANGED hi
  /\ UNCHANGED <<origin, headers, frame, frameQid, qid, path, verb, userActs, nReq, nResp, si, r, obj, rawFlag, objects,
                 callRes, branch>>
  /\ UNCHANGED <<bvars, cvars, lvars, tvars, hvars, fvars>>

\* for _, h := range RequestHooks { if err = h(c); err != nil { ... return } }
RequestHook ==
  /\ pc = "reqhooks"
  /\ hi <= nReq
  /\ \/ /\ invoked' = Append(invoked, Hook("RequestHook", hi, NoErr))
        /\ hi' = hi + 1
        /\ UNCHANGED <<pc, res, retErr>>
     \/ \E e \in UserErrors :
          /\ invoked' = Append(invoked, Hook("RequestHook", hi, e))
          /\ res' = errorResponse(e)
          /\ retErr' = e
          /\ pc' = "done"
          /\ UNCHANGED hi
     \/ /\ invoked' = Append(invoked, Hook("RequestHook", hi, ErrPanic))
        /\ Recovered
        /\ UNCHANGED hi
  /\ UNCHANGED <<origin, headers, frame, frameQid, qid, path, verb, userActs, nReq, nResp, si, r, obj, rawFlag, objects,
                 callRes, branch>>
  /\ UNCHANGED <<bvars, cvars, lvars, tvars, hvars, fvars>>

\* val, err = c.Call(): the entry of Call.
CallBegin ==
  /\ pc = "reqhooks"
  /\ hi > nReq
  /\ pc' = "walk"
  /\ si' = 1
  /\ r' = "root"
  /\ obj' = Nil
  /\ UNCHANGED <<origin, headers, frame, frameQid, qid, path, verb, userActs, nReq, nResp, hi, rawFlag, objects, invoked,
                 callRes, branch, res, retErr>>
  /\ UNCHANGED <<bvars, cvars, lvars, tvars, hvars, fvars>>

\* Call returns (val, err).
CallReturn(val, err) ==
  /\ callRes' = [val |-> val, err |-> err]
  /\ pc' = "respond"

\* One iteration of the walk over the path's segments.
CallWalk ==
  /\ pc = "walk"
  /\ si <= Len(Segments(path))
  /\ LET s == Segments(path)[si]
         plan == WalkPlan(verb, r, obj, s, ActionOf(r))
     IN  CASE plan.do = "skip" ->
                /\ si' = si + 1
                /\ UNCHANGED <<r, obj, objects, invoked, callRes, pc, res, retErr>>
           [] plan.do = "descend" ->
                /\ r' = plan.to
                /\ obj' = Nil
                /\ si' = si + 1
                /\ UNCHANGED <<objects, invoked, callRes, pc, res, retErr>>
           [] plan.do = "fail" ->
                /\ CallReturn(Nil, plan.err)
                /\ UNCHANGED <<r, obj, si, objects, invoked, res, retErr>>
           [] plan.do = "cors" ->
                /\ obj' = CorsSentinel
                /\ si' = si + 1
                /\ UNCHANGED <<r, objects, invoked, callRes, pc, res, retErr>>
           [] plan.do = "invoke" ->
                /\ \/ \E caps \in SUBSET {"Updatable", "Deletable"} :
                        /\ invoked' = Append(invoked, Invocation(plan.op, r, plan.arg, NoErr))
                        /\ obj' = Object(r, s, caps)
                        /\ objects' = objects \cup {r}
                        /\ si' = si + 1
                        /\ UNCHANGED <<callRes, pc, res, retErr>>
                   \/ \* the Fetch action returns (nil, nil)
                      /\ invoked' = Append(invoked, Invocation(plan.op, r, plan.arg, NoErr))
                      /\ obj' = Nil
                      /\ objects' = objects \cup {r}
                      /\ si' = si + 1
                      /\ UNCHANGED <<callRes, pc, res, retErr>>
                   \/ \E e \in UserErrors :
                        /\ invoked' = Append(invoked, Invocation(plan.op, r, plan.arg, e))
                        /\ CallReturn(Nil, e)
                        /\ UNCHANGED <<obj, objects, si, res, retErr>>
                   \/ /\ invoked' = Append(invoked, Invocation(plan.op, r, plan.arg, ErrPanic))
                      /\ Recovered
                      /\ UNCHANGED <<obj, objects, si, callRes>>
                /\ UNCHANGED r
  /\ UNCHANGED <<origin, headers, frame, frameQid, qid, path, verb, userActs, nReq, nResp, hi, rawFlag, branch>>
  /\ UNCHANGED <<bvars, cvars, lvars, tvars, hvars, fvars>>

\* What follows the walk: the static method, the instance or the class.
CallDispatch ==
  /\ pc = "walk"
  /\ si > Len(Segments(path))
  /\ LET plan == DispatchPlan(verb, path, r, obj, ActionOf(r))
     IN  CASE plan.do = "fail" ->
                /\ CallReturn(Nil, plan.err)
                /\ UNCHANGED <<rawFlag, invoked, res, retErr>>
           [] plan.do = "options" ->
                /\ rawFlag' = TRUE
                /\ CallReturn(Nil, plan.err)
                /\ UNCHANGED <<invoked, res, retErr>>
           [] plan.do = "return_obj" ->
                /\ CallReturn(obj, NoErr)
                /\ UNCHANGED <<rawFlag, invoked, res, retErr>>
           [] plan.do = "invoke" ->
                /\ \/ \* the call succeeds
                      /\ invoked' = Append(invoked, Invocation(plan.op, r, plan.arg, NoErr))
                      /\ CallReturn(IF plan.op \in {"ApiUpdate", "ApiDelete"}
                                    THEN obj ELSE ResultOf(plan.op), NoErr)
                      /\ UNCHANGED <<res, retErr>>
                   \/ \* an action returns a *Response of its own
                      /\ plan.op \notin {"ApiUpdate", "ApiDelete"}
                      /\ invoked' = Append(invoked, Invocation(plan.op, r, plan.arg, NoErr))
                      /\ \E u \in UserResponses : CallReturn(u, NoErr)
                      /\ UNCHANGED <<res, retErr>>
                   \/ \E e \in UserErrors :
                        /\ invoked' = Append(invoked, Invocation(plan.op, r, plan.arg, e))
                        /\ CallReturn(Nil, e)
                        /\ UNCHANGED <<res, retErr>>
                   \/ /\ invoked' = Append(invoked, Invocation(plan.op, r, plan.arg, ErrPanic))
                      /\ Recovered
                      /\ UNCHANGED callRes
                /\ UNCHANGED rawFlag
  /\ UNCHANGED <<origin, headers, frame, frameQid, qid, path, verb, userActs, nReq, nResp, hi, si, r, obj, objects, branch>>
  /\ UNCHANGED <<bvars, cvars, lvars, tvars, hvars, fvars>>

\* After Call: Response() builds res from (val, err).
Respond ==
  /\ pc = "respond"
  /\ IF callRes.err # NoErr
       THEN res' = errorResponse(callRes.err) /\ branch' = "error"
       ELSE IF callRes.val.kind = "response"
         THEN res' = callRes.val /\ branch' = "passthrough"
         ELSE res' = successResponse(callRes.val) /\ branch' = "success"
  /\ retErr' = callRes.err
  /\ hi' = 1
  /\ pc' = "resphooks"
  /\ UNCHANGED <<origin, headers, frame, frameQid, qid, path, verb, userActs, nReq, nResp, si, r, obj, rawFlag, objects,
                 invoked, callRes>>
  /\ UNCHANGED <<bvars, cvars, lvars, tvars, hvars, fvars>>

\* for _, h := range ResponseHooks: only the error branch reads what h returns.
ResponseHook ==
  /\ pc = "resphooks"
  /\ hi <= nResp
  /\ \/ /\ invoked' = Append(invoked, Hook("ResponseHook", hi, NoErr))
        /\ hi' = hi + 1
        /\ UNCHANGED <<pc, res, retErr>>
     \/ \E e \in UserErrors :
          /\ invoked' = Append(invoked, Hook("ResponseHook", hi, e))
          /\ IF branch = "error"
               THEN /\ res' = errorResponse(e)
                    /\ retErr' = e
                    /\ pc' = "done"
                    /\ UNCHANGED hi
               ELSE /\ hi' = hi + 1
                    /\ UNCHANGED <<pc, res, retErr>>
     \/ /\ invoked' = Append(invoked, Hook("ResponseHook", hi, ErrPanic))
        /\ Recovered
        /\ UNCHANGED hi
  /\ UNCHANGED <<origin, headers, frame, frameQid, qid, path, verb, userActs, nReq, nResp, si, r, obj, rawFlag, objects,
                 callRes, branch>>
  /\ UNCHANGED <<bvars, cvars, lvars, tvars, hvars, fvars>>

\* The return that follows the last response hook.
Return ==
  /\ pc = "resphooks"
  /\ hi > nResp
  /\ pc' = "done"
  /\ UNCHANGED <<origin, headers, frame, frameQid, qid, path, verb, userActs, nReq, nResp, hi, si, r, obj, rawFlag, objects,
                 invoked, callRes, branch, res, retErr>>
  /\ UNCHANGED <<bvars, cvars, lvars, tvars, hvars, fvars>>

\* The values of the Origin header of a request: none, or an origin.
Origins == {"", "https://app.example"}

\* The headers Response.ServeHTTP sets before it writes the body; "" is a
\* header it does not set.
CorsHeaders(o) ==
  [kind |-> "headers",
   AllowCredentials |-> "true",
   AllowOrigin |-> IF o # "" THEN o ELSE "*",
   Vary |-> IF o # "" THEN "Accept-Encoding,Origin" ELSE ""]

\* What Response.ServeHTTP has set when it hands the request to
\* r.subhandler and returns, or when it panics on r.ctx.flags of a Response
\* whose ctx is nil.
NoHeaders == [kind |-> "headers", AllowCredentials |-> "", AllowOrigin |-> "", Vary |-> ""]

\* HTTP: res, _ := ctx.Response(); res.ServeHTTP(rw, req), for a request
\* whose Origin header is o.  A Response an action has made carries a
\* subhandler, as the one of the WebSocket upgrade does.
ServeHTTP(o) ==
  /\ pc = "done"
  /\ frame = ""
  /\ headers = Nil
  /\ origin' = o
  /\ headers' = IF res.subhandler \/ res.ctx = "" THEN NoHeaders ELSE CorsHeaders(o)
  /\ UNCHANGED <<frame, frameQid, qid, path, verb, userActs, nReq, nResp, hi, si, r, obj,
                 rawFlag, objects, invoked, callRes, branch, res, retErr, pc>>
  /\ UNCHANGED <<bvars, cvars, lvars, tvars, hvars, fvars>>


\* ------------------------------------------------------- the broadcast bus

\* The capacity of the ring wsDataQ.
RingCap == 256

\* Largest number of events published in the "topics" scenario.
MaxPub == 3

Clients == {1, 2}

\* Largest number of Contexts made after those of the clients.
MaxKids == 3

\* The later Contexts there can be; the Contexts of the clients come first.
Kids == {Cardinality(Clients) + i : i \in 1..MaxKids}

Contexts == Clients \cup Kids

\* The Contexts that exist.
Existing == {x \in Contexts : made[x] # ""}

\* c.goTop(): the Context no Context is above.
RECURSIVE goTop(_)
goTop(x) == IF x \in Clients \/ up[x] = 0 THEN x ELSE goTop(up[x])

\* What uuid.Must(uuid.NewRandom()).String() returns, call after call.
UuidNames == [n \in 1..Cardinality(Contexts) |-> <<"uuid", n>>]

\* The request_id values of a carrier that is no Context: none, or one an
\* upstream handler has put there.
CarrierIds == {<<>>, <<"upstream">>}

\* The reqid a constructor that reads the carrier's request_id gives: lines
\* 72-77 of New and 94-99 of NewHttp.
AdoptOrNew(given) == IF given # <<>> THEN given ELSE UuidNames[uuids + 1]

\* How many uuids such a constructor draws.
Drawn(given) == IF given # <<>> THEN 0 ELSE 1

\* Largest number of entries written into object maps.
MaxSet == 2

\* The map WithObject makes: objs := map[string]any{typ: obj}.
Attached == 0

MapIds == {Attached} \cup Contexts

\* The keys of the object maps, and what is stored under them: nothing, the
\* object given to WithObject, objects a request stores.
ObjectTypes == {"user", "item"}

ObjectValues == {"", "attached", "stored"}

EmptyMap == [typ \in ObjectTypes |-> ""]

AttachedObjects == [typ \in ObjectTypes |-> IF typ = "user" THEN "attached" ELSE ""]

\* Whether the carrier of Context x reaches a ctxController: a Context hands
\* the key ctxGetPreObjects to the carrier it was made from.
RECURSIVE UnderController(_)
UnderController(x) ==
  IF x = 0 THEN FALSE
  ELSE IF made[x] = "NewHttp" THEN wrapped
  ELSE UnderController(up[x])

\* ctxController.Value(ctxGetPreObjects) returning c.objects, not a copy.
getPreObjectsShared(k, ctl) == IF ctl THEN Attached ELSE k

\* getPreObjects(ctx) for the new Context k: the map it returns is a new one,
\* made by make() in getPreObjects or in ctxController.Value.
getPreObjects(k, ctl) == k

\* The maps after getPreObjects: a new map holds the entries of the map of
\* WithObject when the carrier reaches a ctxController, and nothing if not.
PreObjects(k, ctl) ==
  IF getPreObjects(k, ctl) = k
  THEN [heap EXCEPT ![k] = IF ctl THEN heap[Attached] ELSE EmptyMap]
  ELSE heap

Topics == {"users", "orders"}

MediaTypes == {"application/json", "application/cbor"}

\* The data handed to BroadcastWS and SendWS.
Payload == [kind |-> "map", s |-> "payload"]

\* emitter.Event
Event(topic, args) == [Topic |-> topic, Args |-> args]

\* c.events == nil
NoEvents == [present |-> FALSE, set |-> {}]

\* A ring reader: made (open) by BlockingReader, valid until the writer
\* overruns it, lag events behind the writer.
NoReader == [open |-> FALSE, valid |-> FALSE, lag |-> 0]

FreshReader == [open |-> TRUE, valid |-> TRUE, lag |-> 0]

\* The frame wsListen writes for a payload.
Frame(mediaType, data) ==
  [typ |-> IF mediaType = "application/cbor" THEN "binary" ELSE "text", data |-> data]

\* c.ListensFor(ev), on any Context.
ListensFor(c, ev) ==
  IF ev = "*" THEN TRUE
  ELSE IF ~events[goTop(c)].present THEN FALSE
  ELSE ev \in events[goTop(c)].set

\* The event reader rd[c] reads next.
NextEvent(c) == wsDataQ[Len(wsDataQ) - rd[c].lag + 1]

\* The publishers may publish one more event.
CanPublish == scen = "flood" \/ nPub < MaxPub

\* c.user, c.csrfOk and c.showProt of a Context no setter was called on.
NoSec == [user |-> "", csrfOk |-> FALSE, showProt |-> FALSE]

\* The Context of a connection whose upgrade request went through hooks
\* that validated its CSRF token and set its user.
HookedSec == [user |-> "alice", csrfOk |-> TRUE, showProt |-> FALSE]

\* The user objects a request hook sets.
Users == {"alice", "bob"}

\* NewChild: user: parent.user, csrfOk: parent.csrfOk, showProt:
\* parent.showProt.
NewChildSec(parentSec) == parentSec

\* The Contexts of the clients, made by NewHttp from requests whose carrier
\* has no request_id; no other Context, no Context done.
IdleTree ==
  /\ up = [k \in Kids |-> 0]
  /\ done = [c \in Clients |-> FALSE]
  /\ made = [x \in Contexts |-> IF x \in Clients THEN "NewHttp" ELSE ""]
  /\ carried = [x \in Contexts |-> <<>>]
  /\ reqid = [x \in Contexts |-> IF x \in Clients THEN UuidNames[x] ELSE <<>>]
  /\ uuids = Cardinality(Clients)
  /\ wrapped = FALSE
  /\ omap = [x \in Contexts |-> x]
  /\ heap = [i \in MapIds |-> IF i = Attached THEN AttachedObjects ELSE EmptyMap]
  /\ nSet = 0
  /\ sec = [x \in Contexts |-> NoSec]

\* The Contexts of the clients, made by NewHttp one after the other from
\* requests whose carrier may have a request_id.
InitContexts ==
  /\ up = [k \in Kids |-> 0]
  /\ done = [c \in Clients |-> FALSE]
  /\ made = [x \in Contexts |-> IF x \in Clients THEN "NewHttp" ELSE ""]
  /\ carried \in [Contexts -> CarrierIds]
  /\ \A k \in Kids : carried[k] = <<>>
  /\ uuids = Cardinality({c \in Clients : carried[c] = <<>>})
  /\ reqid = [x \in Contexts |->
                IF x \in Kids THEN <<>>
                ELSE IF carried[x] # <<>> THEN carried[x]
                ELSE UuidNames[Cardinality({c \in Clients : c <= x /\ carried[c] = <<>>})]]
  /\ wrapped \in BOOLEAN
  /\ omap = [x \in Contexts |-> x]
  /\ heap = [i \in MapIds |->
               IF i = Attached \/ (i \in Clients /\ wrapped)
               THEN AttachedObjects ELSE EmptyMap]
  /\ nSet = 0
  /\ sec \in [Contexts -> {NoSec, HookedSec}]
  /\ \A k \in Kids : sec[k] = NoSec

\* Two connected clients and their Contexts; nothing is published.
InitTree ==
  /\ scen = "tree"
  /\ wsDataQ = <<>>
  /\ nPub = 0
  /\ events = [x \in Contexts |-> NoEvents]
  /\ accept = [c \in Clients |-> "application/json"]
  /\ rd = [c \in Clients |-> NoReader]
  /\ lpc = [c \in Clients |-> "none"]
  /\ sock = [c \in Clients |-> TRUE]
  /\ frames = [c \in Clients |-> <<>>]

\* Two clients and their Contexts; Contexts are made of every carrier, and
\* nothing is published or listened for.
InitIds ==
  /\ scen = "ids"
  /\ wsDataQ = <<>>
  /\ nPub = 0
  /\ events = [x \in Contexts |-> NoEvents]
  /\ accept = [c \in Clients |-> "application/json"]
  /\ rd = [c \in Clients |-> NoReader]
  /\ lpc = [c \in Clients |-> "none"]
  /\ sock = [c \in Clients |-> TRUE]
  /\ frames = [c \in Clients |-> <<>>]

IdleBus ==
  /\ scen = "none"
  /\ wsDataQ = <<>>
  /\ nPub = 0
  /\ events = [x \in Contexts |-> NoEvents]
  /\ accept = [c \in Clients |-> "application/json"]
  /\ rd = [c \in Clients |-> NoReader]
  /\ lpc = [c \in Clients |-> "none"]
  /\ sock = [c \in Clients |-> TRUE]
  /\ frames = [c \in Clients |-> <<>>]

\* Both clients are connected and handleWebsocket has started their wsListen.
\* "topics": an empty ring, a few events to come, on any topic, and peers
\* that read what they are sent.  "flood": a ring that earlier broadcasts
\* have filled, broadcasts without end, and peers that may stop reading.
\* "cancel": an empty ring, a few broadcasts to come, and connections that
\* may end.
InitBus ==
  /\ scen \in {"topics", "flood", "cancel"}
  /\ wsDataQ = IF scen = "flood" THEN [i \in 1..RingCap |-> Event("*", <<Payload>>)] ELSE <<>>
  /\ nPub = 0
  /\ events = [x \in Contexts |-> NoEvents]
  /\ accept \in [Clients -> MediaTypes]
  /\ scen # "topics" => accept = [c \in Clients |-> "application/json"]
  /\ rd = [c \in Clients |-> NoReader]
  /\ lpc = [c \in Clients |-> "start"]
  /\ sock = [c \in Clients |-> TRUE]
  /\ frames = [c \in Clients |-> <<>>]

\* A ring whose writer waits for its slowest reader instead of overrunning it.
QAppendWaitsForReaders(ev) ==
  /\ \A c \in Clients : (rd[c].open /\ rd[c].valid) => rd[c].lag < RingCap
  /\ wsDataQ' = IF Len(wsDataQ) < RingCap THEN Append(wsDataQ, ev)
                ELSE Append(Tail(wsDataQ), ev)
  /\ rd' = [c \in Clients |->
              IF rd[c].open /\ rd[c].valid THEN [rd[c] EXCEPT !.lag = @ + 1] ELSE rd[c]]

\* wsDataQ.Append(ev): the event takes the place of the oldest one when the
\* ring is full; a reader that had not read that one is no longer valid.
QAppend(ev) ==
  /\ wsDataQ' = IF Len(wsDataQ) < RingCap THEN Append(wsDataQ, ev)
                ELSE Append(Tail(wsDataQ), ev)
  /\ rd' = [c \in Clients |->
              IF ~(rd[c].open /\ rd[c].valid) THEN rd[c]
              ELSE IF rd[c].lag = RingCap THEN [rd[c] EXCEPT !.valid = FALSE, !.lag = 0]
              ELSE [rd[c] EXCEPT !.lag = @ + 1]]

\* BroadcastWS(ctx, data)
BroadcastWS ==
  /\ CanPublish
  /\ QAppend(Event("*", <<Payload>>))
  /\ nPub' = IF scen = "flood" THEN nPub ELSE nPub + 1
  /\ UNCHANGED <<scen, events, accept, lpc, sock, frames>>
  /\ UNCHANGED <<pvars, cvars, lvars, tvars, hvars, fvars>>

\* SendWS(ctx, topic, data)
SendWS ==
  /\ scen = "topics"
  /\ CanPublish
  /\ \E topic \in Topics : QAppend(Event(topic, <<Payload>>))
  /\ nPub' = nPub + 1
  /\ UNCHANGED <<scen, events, accept, lpc, sock, frames>>
  /\ UNCHANGED <<pvars, cvars, lvars, tvars, hvars, fvars>>

\* A SetListen that changes the events of the Context it is called on.
SetListenOwn(c, ev, listen) ==
  /\ scen \in {"topics", "tree"}
  /\ c \in Existing
  /\ events' = [events EXCEPT ![c] =
                  IF ~@.present
                  THEN IF listen THEN [present |-> TRUE, set |-> {ev}] ELSE @
                  ELSE IF listen THEN [@ EXCEPT !.set = @ \cup {ev}]
                  ELSE [@ EXCEPT !.set = @ \ {ev}]]
  /\ UNCHANGED <<scen, wsDataQ, nPub, accept, rd, lpc, sock, frames>>
  /\ UNCHANGED <<pvars, cvars, lvars, tvars, hvars, fvars>>

\* A SetListen that keeps one subscription set for all the connections.
SetListenShared(c, ev, listen) ==
  /\ scen \in {"topics", "tree"}
  /\ c \in Existing
  /\ events' = [x \in Contexts |->
                  IF x \notin Clients THEN events[x]
                  ELSE IF ~events[x].present
                  THEN IF listen THEN [present |-> TRUE, set |-> {ev}] ELSE events[x]
                  ELSE IF listen THEN [events[x] EXCEPT !.set = @ \cup {ev}]
                  ELSE [events[x] EXCEPT !.set = @ \ {ev}]]
  /\ UNCHANGED <<scen, wsDataQ, nPub, accept, rd, lpc, sock, frames>>
  /\ UNCHANGED <<pvars, cvars, lvars, tvars, hvars, fvars>>

\* c.SetListen(ev, listen), on the Context of a client or on a child of it.
SetListen(c, ev, listen) ==
  /\ scen \in {"topics", "tree"}
  /\ c \in Existing
  /\ events' = [events EXCEPT ![goTop(c)] =
                  IF ~@.present
                  THEN IF listen THEN [present |-> TRUE, set |-> {ev}] ELSE @
                  ELSE IF listen THEN [@ EXCEPT !.set = @ \cup {ev}]
                  ELSE [@ EXCEPT !.set = @ \ {ev}]]
  /\ UNCHANGED <<scen, wsDataQ, nPub, accept, rd, lpc, sock, frames>>
  /\ UNCHANGED <<pvars, cvars, lvars, tvars, hvars, fvars>>

\* wsListen: r := wsDataQ.BlockingReader()
WsListenStart(c) ==
  /\ lpc[c] = "start"
  /\ rd' = [rd EXCEPT ![c] = FreshReader]
  /\ lpc' = [lpc EXCEPT ![c] = IF done[c] THEN "exited" ELSE "loop"]
  /\ UNCHANGED <<scen, wsDataQ, nPub, events, accept, sock, frames>>
  /\ UNCHANGED <<pvars, cvars, lvars, tvars, hvars, fvars>>

\* wsListen: one iteration of the loop, from r.ReadOne() to the select of
\* the next iteration.  r.ReadOne() waits for an event, or fails when the
\* reader is no longer valid; the write waits for the socket; the select
\* returns if c.Done() is closed and goes back to r.ReadOne() if not.
WsListen(c) ==
  /\ lpc[c] = "loop"
  /\ IF ~rd[c].valid
     THEN /\ lpc' = [lpc EXCEPT ![c] = "exited"]
          /\ UNCHANGED <<rd, frames>>
     ELSE /\ rd[c].lag > 0
          /\ rd' = [rd EXCEPT ![c].lag = @ - 1]
          /\ LET ev == NextEvent(c)
             IN  IF Len(ev.Args) < 2 THEN UNCHANGED frames
                 ELSE IF ev.Args[1].kind # "string" THEN UNCHANGED frames
                 ELSE IF ListensFor(c, ev.Args[1].s)
                 THEN /\ sock[c]
                      /\ frames' = [frames EXCEPT ![c] = Append(@, Frame(accept[c], ev.Args[2]))]
                 ELSE UNCHANGED frames
          /\ lpc' = [lpc EXCEPT ![c] = IF done[c] THEN "exited" ELSE "loop"]
  /\ UNCHANGED <<scen, wsDataQ, nPub, events, accept, sock>>
  /\ UNCHANGED <<pvars, cvars, lvars, tvars, hvars, fvars>>

\* handleWebsocket of client c returns: its deferred cancel() runs.
Cancel(c) ==
  /\ scen = "cancel"
  /\ ~done[c]
  /\ done' = [done EXCEPT ![c] = TRUE]
  /\ UNCHANGED <<up, made, carried, reqid, uuids, wrapped, omap, heap, nSet, sec>>
  /\ UNCHANGED <<pvars, bvars, cvars, lvars, hvars, fvars>>

\* Context k is the next one to make.
NextToMake(k) ==
  /\ scen \in {"tree", "ids"}
  /\ k \in Kids
  /\ made[k] = ""
  /\ \A j \in Kids : j < k => made[j] # ""

\* NewChild with the request id taken from the parent, as New takes it from
\* its carrier.
NewChildAdopts(k, parent) ==
  /\ NextToMake(k)
  /\ parent \in Existing
  /\ up' = [up EXCEPT ![k] = parent]
  /\ made' = [made EXCEPT ![k] = "NewChild"]
  /\ carried' = [carried EXCEPT ![k] = reqid[parent]]
  /\ reqid' = [reqid EXCEPT ![k] = reqid[parent]]
  /\ omap' = [omap EXCEPT ![k] = getPreObjects(k, UnderController(parent))]
  /\ heap' = PreObjects(k, UnderController(parent))
  /\ sec' = [sec EXCEPT ![k] = sec[parent]]
  /\ UNCHANGED <<done, uuids, wrapped, nSet>>
  /\ UNCHANGED <<pvars, bvars, cvars, lvars, hvars, fvars>>

\* NewChild(parent, req, contentType) makes child Context k.  The parent is
\* its carrier, and Context.Value("request_id") of the parent is its reqid.
NewChild(k, parent) ==
  /\ NextToMake(k)
  /\ parent \in Existing
  /\ up' = [up EXCEPT ![k] = parent]
  /\ made' = [made EXCEPT ![k] = "NewChild"]
  /\ carried' = [carried EXCEPT ![k] = reqid[parent]]
  /\ reqid' = [reqid EXCEPT ![k] = UuidNames[uuids + 1]]
  /\ uuids' = uuids + 1
  /\ omap' = [omap EXCEPT ![k] = getPreObjects(k, UnderController(parent))]
  /\ heap' = PreObjects(k, UnderController(parent))
  /\ sec' = [sec EXCEPT ![k] = NewChildSec(sec[parent])]
  /\ UNCHANGED <<done, wrapped, nSet>>
  /\ UNCHANGED <<pvars, bvars, cvars, lvars, hvars, fvars>>

\* New(ctx, path, verb) makes Context k.  ctx is Context parent, or, when
\* parent is 0, a carrier that is no Context and whose request_id is given.
New(k, parent, given) ==
  /\ scen = "ids"
  /\ NextToMake(k)
  /\ parent \in Existing \cup {0}
  /\ given \in CarrierIds
  /\ parent # 0 => given = <<>>
  /\ LET id == IF parent # 0 THEN reqid[parent] ELSE given
     IN  /\ up' = [up EXCEPT ![k] = parent]
         /\ made' = [made EXCEPT ![k] = "New"]
         /\ carried' = [carried EXCEPT ![k] = id]
         /\ reqid' = [reqid EXCEPT ![k] = AdoptOrNew(id)]
         /\ uuids' = uuids + Drawn(id)
  /\ omap' = [omap EXCEPT ![k] = getPreObjects(k, UnderController(parent))]
  /\ heap' = PreObjects(k, UnderController(parent))
  /\ sec' = [sec EXCEPT ![k] = NoSec]
  /\ UNCHANGED <<done, wrapped, nSet>>
  /\ UNCHANGED <<pvars, bvars, cvars, lvars, hvars, fvars>>

\* NewHttp(rw, req) makes Context k; given is the request_id of
\* req.Context(), which is no Context.
NewHttp(k, given) ==
  /\ scen = "ids"
  /\ NextToMake(k)
  /\ given \in CarrierIds
  /\ up' = [up EXCEPT ![k] = 0]
  /\ made' = [made EXCEPT ![k] = "NewHttp"]
  /\ carried' = [carried EXCEPT ![k] = given]
  /\ reqid' = [reqid EXCEPT ![k] = AdoptOrNew(given)]
  /\ uuids' = uuids + Drawn(given)
  /\ omap' = [omap EXCEPT ![k] = getPreObjects(k, wrapped)]
  /\ heap' = PreObjects(k, wrapped)
  /\ sec' = [sec EXCEPT ![k] = NoSec]
  /\ UNCHANGED <<done, wrapped, nSet>>
  /\ UNCHANGED <<pvars, bvars, cvars, lvars, hvars, fvars>>

\* c.SetObject(typ, v); Call's c.objects[r.String()] = res and GetObject's
\* c.objects[typ] = res write the same way.
SetObject(c, typ, v) ==
  /\ scen = "ids"
  /\ c \in Existing
  /\ nSet < MaxSet
  /\ v # ""
  /\ heap' = [heap EXCEPT ![omap[c]][typ] = v]
  /\ nSet' = nSet + 1
  /\ UNCHANGED <<up, done, made, carried, reqid, uuids, wrapped, omap, sec>>
  /\ UNCHANGED <<pvars, bvars, cvars, lvars, hvars, fvars>>

\* A SetUser that sets the user of the connection, as SetListen sets its
\* subscriptions.
SetUserTop(c, user) ==
  /\ scen = "ids"
  /\ c \in Existing
  /\ nSet < MaxSet
  /\ sec' = [sec EXCEPT ![goTop(c)].user = user]
  /\ nSet' = nSet + 1
  /\ UNCHANGED <<up, done, made, carried, reqid, uuids, wrapped, omap, heap>>
  /\ UNCHANGED <<pvars, bvars, cvars, lvars, hvars, fvars>>

\* c.SetUser(user)
SetUser(c, user) ==
  /\ scen = "ids"
  /\ c \in Existing
  /\ nSet < MaxSet
  /\ sec' = [sec EXCEPT ![c].user = user]
  /\ nSet' = nSet + 1
  /\ UNCHANGED <<up, done, made, carried, reqid, uuids, wrapped, omap, heap>>
  /\ UNCHANGED <<pvars, bvars, cvars, lvars, hvars, fvars>>

\* c.SetCsrfValidated(ok)
SetCsrfValidated(c, ok) ==
  /\ scen = "ids"
  /\ c \in Existing
  /\ nSet < MaxSet
  /\ sec' = [sec EXCEPT ![c].csrfOk = ok]
  /\ nSet' = nSet + 1
  /\ UNCHANGED <<up, done, made, carried, reqid, uuids, wrapped, omap, heap>>
  /\ UNCHANGED <<pvars, bvars, cvars, lvars, hvars, fvars>>

\* c.SetShowProtectedFields(p)
SetShowProtectedFields(c, p) ==
  /\ scen = "ids"
  /\ c \in Existing
  /\ nSet < MaxSet
  /\ sec' = [sec EXCEPT ![c].showProt = p]
  /\ nSet' = nSet + 1
  /\ UNCHANGED <<up, done, made, carried, reqid, uuids, wrapped, omap, heap>>
  /\ UNCHANGED <<pvars, bvars, cvars, lvars, hvars, fvars>>

\* The peer of client c stops reading: a write to its socket would wait.
SockStall(c) ==
  /\ scen = "flood"
  /\ sock[c]
  /\ sock' = [sock EXCEPT ![c] = FALSE]
  /\ UNCHANGED <<scen, wsDataQ, nPub, events, accept, rd, lpc, frames>>
  /\ UNCHANGED <<pvars, cvars, lvars, tvars, hvars, fvars>>

\* The peer of client c reads again.
SockDrain(c) ==
  /\ ~sock[c]
  /\ sock' = [sock EXCEPT ![c] = TRUE]
  /\ UNCHANGED <<scen, wsDataQ, nPub, events, accept, rd, lpc, frames>>
  /\ UNCHANGED <<pvars, cvars, lvars, tvars, hvars, fvars>>

\* ------------------------------------------- one long-lived connection

\* Largest number of request frames read from the connection.
MaxReq == 2

\* Largest number of Progress calls of one handler.
MaxProgress == 2

\* Largest number of BroadcastJson calls.
MaxBroadcast == 2

Reqs == 1..MaxReq

\* The writer that is not a request: a goroutine of BroadcastJson.
Broadcaster == 0

\* A writer: a call of the connection's write, by the goroutine of request
\* by (typ "progress" or "terminal") or by a goroutine of BroadcastJson.
Writer(by, typ, n) == [by |-> by, typ |-> typ, n |-> n]

\* The bytes of the stream socket, which has no frames.
Stream == "stream"

\* websocket.MessageText and websocket.MessageBinary, and Stream.
MessageTypes == {"text", "binary", Stream}

\* A sink that takes the message type from the media type negotiated at the
\* upgrade, as wsListen does for its events.
WrittenAsNegotiated(w) ==
  IF ckind = "json" THEN Stream
  ELSE IF negotiated = "application/cbor" THEN "binary" ELSE "text"

\* The message type an envelope is written with.  handleWebsocket writes the
\* response of a binary frame with websocket.MessageBinary and gives its
\* request a websocketSink with cbor true, and that of a text frame with
\* websocket.MessageText and a sink with cbor false; SendResponse writes a
\* progress envelope as binary when cbor is set and as text when not.
WrittenAs(w) ==
  IF ckind = "json" THEN Stream
  ELSE IF mt[w.by] = "binary" THEN "binary" ELSE "text"

IdleConn ==
  /\ loop = "none"
  /\ registered = FALSE
  /\ closed = FALSE
  /\ cancelled = {}
  /\ ckind = "none"
  /\ req = [q \in Reqs |-> [st |-> "unread", nprog |-> 0]]
  /\ waiting = {}
  /\ inWrite = {}
  /\ wlk = FALSE
  /\ nBc = 0
  /\ wire = <<>>
  /\ negotiated = ""
  /\ mt = [q \in Reqs |-> ""]
  /\ wtype = <<>>

\* A connection that has just been accepted: handleJsonClient or
\* handleWebsocket has just been called.
InitConn ==
  /\ loop = "start"
  /\ registered = FALSE
  /\ closed = FALSE
  /\ cancelled = {}
  /\ ckind \in {"json", "ws"}
  /\ req = [q \in Reqs |-> [st |-> "unread", nprog |-> 0]]
  /\ waiting = {}
  /\ inWrite = {}
  /\ wlk = FALSE
  /\ nBc = 0
  /\ wire = <<>>
  /\ negotiated \in IF ckind = "ws" THEN MediaTypes ELSE {""}
  /\ mt = [q \in Reqs |-> ""]
  /\ wtype = <<>>

\* The read loop reads frame q.  handleJsonClient starts a goroutine for it
\* and reads on; handleWebsocket runs it and reads on after writing its
\* response.
ReadRequest(q) ==
  /\ loop = "running"
  /\ ~closed
  /\ req[q].st = "unread"
  /\ \A p \in Reqs : p < q => req[p].st # "unread"
  /\ ckind = "ws" => \A p \in Reqs : req[p].st \in {"unread", "done"}
  /\ req' = [req EXCEPT ![q].st = "running"]
  /\ \E t \in MessageTypes :
       /\ ckind = "json" => t = Stream
       /\ ckind = "ws" => t # Stream
       /\ mt' = [mt EXCEPT ![q] = t]
  /\ UNCHANGED <<negotiated, wtype, ckind, waiting, inWrite, wlk, nBc, wire>>
  /\ UNCHANGED <<pvars, bvars, lvars, tvars, hvars, fvars>>

\* A Progress that hands the envelope to a goroutine and returns.
ProgressDetached(q) ==
  /\ req[q].st = "running"
  /\ req[q].nprog < MaxProgress
  /\ req' = [req EXCEPT ![q].nprog = @ + 1]
  /\ waiting' = waiting \cup {Writer(q, "progress", req[q].nprog + 1)}
  /\ UNCHANGED <<negotiated, mt, wtype, ckind, inWrite, wlk, nBc, wire>>
  /\ UNCHANGED <<pvars, bvars, lvars, tvars, hvars, fvars>>

\* The handler of request q calls Progress(ctx, data): it is in
\* c.rsink.SendResponse until the envelope is written.
Progress(q) ==
  /\ req[q].st = "running"
  /\ req[q].nprog < MaxProgress
  /\ req' = [req EXCEPT ![q] = [st |-> "progress", nprog |-> @.nprog + 1]]
  /\ waiting' = waiting \cup {Writer(q, "progress", req[q].nprog + 1)}
  /\ UNCHANGED <<negotiated, mt, wtype, ckind, inWrite, wlk, nBc, wire>>
  /\ UNCHANGED <<pvars, bvars, lvars, tvars, hvars, fvars>>

\* Response() of request q returns and its goroutine writes the result:
\* cl.SendResponse(resp), or c.wsc.Write in handleWebsocket.
HandlerReturn(q) ==
  /\ req[q].st = "running"
  /\ req' = [req EXCEPT ![q].st = "responding"]
  /\ waiting' = waiting \cup {Writer(q, "terminal", req[q].nprog)}
  /\ UNCHANGED <<negotiated, mt, wtype, ckind, inWrite, wlk, nBc, wire>>
  /\ UNCHANGED <<pvars, bvars, lvars, tvars, hvars, fvars>>

\* BroadcastJson(ctx, data): go c.Encode(data) for the client.
BroadcastJson ==
  /\ ckind = "json"
  /\ nBc < MaxBroadcast
  /\ nBc' = nBc + 1
  /\ waiting' = waiting \cup {Writer(Broadcaster, "event", nBc + 1)}
  /\ UNCHANGED <<negotiated, mt, wtype, ckind, req, inWrite, wlk, wire>>
  /\ UNCHANGED <<pvars, bvars, lvars, tvars, hvars, fvars>>

\* An Encode that does not take the write lock.
EncodeNoLock(w) ==
  /\ ckind = "json"
  /\ w \in waiting
  /\ waiting' = waiting \ {w}
  /\ inWrite' = inWrite \cup {w}
  /\ UNCHANGED <<negotiated, mt, wtype, ckind, req, wlk, nBc, wire>>
  /\ UNCHANGED <<pvars, bvars, lvars, tvars, hvars, fvars>>

\* jsonclient.Encode: cl.wlk.Lock(), then the write begins.
Encode(w) ==
  /\ ckind = "json"
  /\ w \in waiting
  /\ ~wlk
  /\ wlk' = TRUE
  /\ waiting' = waiting \ {w}
  /\ inWrite' = inWrite \cup {w}
  /\ UNCHANGED <<negotiated, mt, wtype, ckind, req, nBc, wire>>
  /\ UNCHANGED <<pvars, bvars, lvars, tvars, hvars, fvars>>

\* c.wsc.Write of a response or of a progress envelope begins.  The
\* goroutine of the read loop is the only one that gets here.
WsWrite(w) ==
  /\ ckind = "ws"
  /\ w \in waiting
  /\ waiting' = waiting \ {w}
  /\ inWrite' = inWrite \cup {w}
  /\ UNCHANGED <<negotiated, mt, wtype, ckind, req, wlk, nBc, wire>>
  /\ UNCHANGED <<pvars, bvars, lvars, tvars, hvars, fvars>>

\* The write of w ends (and Encode's deferred Unlock runs): the envelope is
\* on the wire, Progress returns to the handler, a request is done.
WriteDone(w) ==
  /\ w \in inWrite
  /\ ~closed
  /\ inWrite' = inWrite \ {w}
  /\ wlk' = FALSE
  /\ wire' = Append(wire, w)
  /\ wtype' = Append(wtype, WrittenAs(w))
  /\ req' = IF w.typ = "progress" THEN [req EXCEPT ![w.by].st = "running"]
            ELSE IF w.typ = "terminal" THEN [req EXCEPT ![w.by].st = "done"]
            ELSE req
  /\ UNCHANGED <<negotiated, mt, ckind, waiting, nBc>>
  /\ UNCHANGED <<pvars, bvars, lvars, tvars, hvars, fvars>>

\* The requests whose pipeline has begun and whose response is not written.
InFlight == {q \in Reqs : req[q].st \in {"running", "progress", "responding"}}

\* The handler enters its loop: cl.register() for the stream socket;
\* c.registerWsClient(), context.WithCancel and go c.wsListen() for the
\* WebSocket.
Register ==
  /\ loop = "start"
  /\ loop' = "running"
  /\ registered' = TRUE
  /\ UNCHANGED <<closed, cancelled>>
  /\ UNCHANGED <<pvars, bvars, cvars, tvars, hvars, fvars>>

\* A handler whose deferred calls leave the client in the map.
TeardownKeepsClient ==
  /\ loop' = "ended"
  /\ registered' = registered
  /\ closed' = TRUE
  /\ cancelled' = IF ckind = "ws" THEN {q \in Reqs : req[q].st # "unread"} ELSE cancelled

\* The deferred calls of the handler, run when it returns or panics:
\* cl.deregister() and c.Close() for the stream socket, whose requests were
\* made on context.Background(); cancel(), c.releaseWsClient() and
\* c.wsc.CloseNow() for the WebSocket, whose requests are children of the
\* cancelled Context.
Teardown ==
  /\ loop' = "ended"
  /\ registered' = FALSE
  /\ closed' = TRUE
  /\ cancelled' = IF ckind = "ws" THEN {q \in Reqs : req[q].st # "unread"} ELSE cancelled

\* The read of the loop fails (the peer is gone, the socket is closed, the
\* frame does not decode) or panics, and the handler returns.  The loop of
\* the WebSocket is at its read only when no request is in flight.
LoopEnd ==
  /\ loop = "running"
  /\ ckind = "ws" => InFlight = {}
  /\ Teardown
  /\ UNCHANGED <<pvars, bvars, cvars, tvars, hvars, fvars>>

\* handleWebsocket cannot encode the response of frame q: it closes the
\* connection and returns.
WsEncodeFail(q) ==
  /\ ckind = "ws"
  /\ loop = "running"
  /\ req[q].st = "responding"
  /\ Writer(q, "terminal", req[q].nprog) \in waiting
  /\ waiting' = waiting \ {Writer(q, "terminal", req[q].nprog)}
  /\ req' = [req EXCEPT ![q].st = "done"]
  /\ Teardown
  /\ UNCHANGED <<negotiated, mt, wtype, ckind, inWrite, wlk, nBc, wire>>
  /\ UNCHANGED <<pvars, bvars, tvars, hvars, fvars>>

\* The write of w fails: nothing is on the wire.  jsonclient.run closes the
\* socket when its response cannot be written; every other caller leaves
\* the connection alone.
WriteFail(w) ==
  /\ w \in inWrite
  /\ inWrite' = inWrite \ {w}
  /\ wlk' = FALSE
  /\ req' = IF w.typ = "progress" THEN [req EXCEPT ![w.by].st = "running"]
            ELSE IF w.typ = "terminal" THEN [req EXCEPT ![w.by].st = "done"]
            ELSE req
  /\ closed' = (closed \/ (ckind = "json" /\ w.typ = "terminal"))
  /\ UNCHANGED <<negotiated, mt, wtype, ckind, waiting, nBc, wire>>
  /\ UNCHANGED <<loop, registered, cancelled>>
  /\ UNCHANGED <<pvars, bvars, tvars, hvars, fvars>>

\* Every writer there can be.
Writers ==
  {Writer(q, typ, n) : q \in Reqs, typ \in {"progress", "terminal"}, n \in 0..MaxProgress}
    \cup {Writer(Broadcaster, "event", n) : n \in 1..MaxBroadcast}

\* ---------------------------------------------------------- one call

\* No call.
IdleCalls ==
  /\ fn = "none"
  /\ farg = Nil
  /\ fout = Nil

\* The values of a parameter: a string, an int, nil, or a map of values.
StrVal(text) == [t |-> "string", s |-> text]

IntVal(n) == [t |-> "int", n |-> n]

NilValue == [t |-> "nil"]

Map(f) == [t |-> "map", m |-> f]

\* The maps from some of keys to values of vals.
Maps(keys, vals) == UNION {[d -> vals] : d \in SUBSET keys}

Scalars == {StrVal("x"), StrVal("7"), IntVal(7), NilValue}

\* c.params: "7" and "sub" may be there, "sub" may hold a map with "x".
ParamMaps ==
  {Map(f) : f \in Maps({"7", "sub"}, Scalars \cup {Map(g) : g \in Maps({"x"}, Scalars)})}

\* The names GetParamTo is asked for.
ParamNames == {"", "7", "sub", "sub.x", "b"}

\* strings.Split(v, ".")
SplitName(v) ==
  CASE v = "sub.x" -> <<"sub", "x">>
    [] OTHER -> <<v>>

\* GetParam: the loop over the parts of the name.
RECURSIVE Lookup(_, _)
Lookup(val, ks) ==
  IF ks = <<>> THEN val
  ELSE IF val.t # "map" THEN NilValue
  ELSE IF Head(ks) \notin DOMAIN val.m THEN NilValue
  ELSE Lookup(val.m[Head(ks)], Tail(ks))

\* c.GetParam(v)
GetParam(params, v) == IF v = "" THEN params ELSE Lookup(params, SplitName(v))

\* fs.ErrNotExist
ErrNotExist ==
  [kind |-> "err", typ |-> "plain", msg |-> "file does not exist",
   status |-> 0, token |-> "", allowed |-> <<>>, info |-> ""]

\* The types of the variable obj points to.
ObjTypes == {"string", "int"}

\* The decimal strings of the model and their numbers.
Digits == [text \in {"7"} |-> 7]

\* What typutil.Assign can do with a source for a destination of type typ:
\* a string stays itself, a number is written in decimal, a decimal string
\* is parsed; a string that is no number gives an error or zero, and a map
\* or nil is not assigned to a string or an int.
Assign(typ, src) ==
  CASE src.t = "string" /\ typ = "string" -> {[err |-> NoErr, val |-> src]}
    [] src.t = "int" /\ typ = "int" -> {[err |-> NoErr, val |-> src]}
    [] src.t = "int" /\ typ = "string" ->
         {[err |-> NoErr, val |-> StrVal(CHOOSE text \in DOMAIN Digits : Digits[text] = src.n)]}
    [] src.t = "string" /\ typ = "int" ->
         IF src.s \in DOMAIN Digits THEN {[err |-> NoErr, val |-> IntVal(Digits[src.s])]}
         ELSE {[err |-> ErrPlain, val |-> NilValue], [err |-> NoErr, val |-> IntVal(0)]}
    [] OTHER -> {[err |-> ErrPlain, val |-> NilValue]}

\* What GetParamTo hands to typutil.Assign as the source: v, the name.
GetParamToSource(params, v) == StrVal(v)

\* A Context whose params are set, a name, and a variable of some type
\* holding some value of it.
InitGetParamTo ==
  /\ fn = "GetParamTo"
  /\ farg \in [params : ParamMaps, v : ParamNames, typ : ObjTypes, obj : {StrVal("old"), IntVal(1)}]
  /\ farg.obj.t = farg.typ
  /\ fout = Nil

\* c.GetParamTo(v, &obj)
GetParamTo ==
  /\ fn = "GetParamTo"
  /\ fout = Nil
  /\ IF GetParam(farg.params, farg.v) = NilValue
     THEN fout' = [err |-> ErrNotExist, obj |-> farg.obj]
     ELSE \E a \in Assign(farg.typ, GetParamToSource(farg.params, farg.v)) :
            fout' = [err |-> a.err, obj |-> IF a.err = NoErr THEN a.val ELSE farg.obj]
  /\ UNCHANGED <<fn, farg>>
  /\ UNCHANGED <<pvars, bvars, cvars, lvars, tvars, hvars>>

\* GetParam[int](ctx, name): the value and whether it was found, for a
\* parameter that is absent or holds an integer.
GetParamInt(val) ==
  IF val = NilValue THEN [v |-> 0, ok |-> FALSE] ELSE [v |-> val.n, ok |-> TRUE]

\* The values of page_no and results_per_page in the request.
PageParams == {NilValue} \cup {IntVal(n) : n \in {-1, 0, 1, 2, 3, 50, 100, 101, 1000}}

\* The values of the resultsPerPage argument.
PageDefaults == {-1, 0, 1, 25, 100, 101, 500}

\* The limit and the offset the scope of Paginate(resultsPerPage) applies.
PaginateScope(page_no, results_per_page, resultsPerPage) ==
  LET page == IF GetParamInt(page_no).v < 1 THEN 1 ELSE GetParamInt(page_no).v
      def  == IF resultsPerPage <= 0 THEN 25 ELSE resultsPerPage
      rpp  == GetParamInt(results_per_page)
      lim  == IF rpp.ok /\ rpp.v > 0 /\ rpp.v <= 100 THEN rpp.v ELSE def
  IN  [limit |-> lim, offset |-> (page - 1) * lim]

\* A request with its two parameters, and the argument of Paginate.
InitPaginate ==
  /\ fn = "Paginate"
  /\ farg \in [page_no : PageParams, results_per_page : PageParams,
               resultsPerPage : PageDefaults]
  /\ fout = Nil

\* db.Scopes(ctx.Paginate(resultsPerPage)): the scope runs on the query.
Paginate ==
  /\ fn = "Paginate"
  /\ fout = Nil
  /\ fout' = PaginateScope(farg.page_no, farg.results_per_page, farg.resultsPerPage)
  /\ UNCHANGED <<fn, farg>>
  /\ UNCHANGED <<pvars, bvars, cvars, lvars, tvars, hvars>>

\* res[k] = v on a map.
Put(f, k, v) == [x \in DOMAIN f \cup {k} |-> IF x = k THEN v ELSE f[x]]

\* The keys SetExtraResponse and SetCache are called with.
ExtraKeys == {"result", "data", "cache", "code", "token", "query_id"}

\* c.extra: every value in it is one the application chose.
ExtraMaps == Maps(ExtraKeys, {"extra"})

\* The Responses an envelope is built of: a success, an error with a token
\* on a frame that has a query id, a redirect, and a panic.  Every field is
\* written as its text; "" is the zero value of the field (0, nil, "").
Envelopes ==
  {[Result |-> "success", Error |-> "", Code |-> "200", Time |-> "0.1", Data |-> "rows",
    RequestId |-> "id", RedirectURL |-> "", RedirectCode |-> "", Token |-> "",
    ErrorInfo |-> "", QueryId |-> ""],
   [Result |-> "error", Error |-> "Access denied", Code |-> "403", Time |-> "0.1", Data |-> "",
    RequestId |-> "id", RedirectURL |-> "", RedirectCode |-> "", Token |-> "error_access_denied",
    ErrorInfo |-> "details", QueryId |-> "q1"],
   [Result |-> "redirect", Error |-> "", Code |-> "", Time |-> "0.1", Data |-> "",
    RequestId |-> "id", RedirectURL |-> "url", RedirectCode |-> "302", Token |-> "",
    ErrorInfo |-> "", QueryId |-> ""],
   [Result |-> "error", Error |-> "panic", Code |-> "500", Time |-> "0.1", Data |-> "",
    RequestId |-> "id", RedirectURL |-> "", RedirectCode |-> "", Token |-> "",
    ErrorInfo |-> "", QueryId |-> ""]}

\* An envelope in which the entries of c.extra are written last.
getResponseDataExtraLast(re, extra) ==
  LET own == [result |-> re.Result, time |-> re.Time, data |-> re.Data,
              request_id |-> re.RequestId]
  IN  [k \in DOMAIN own \cup DOMAIN extra |-> IF k \in DOMAIN extra THEN extra[k] ELSE own[k]]

\* r.getResponseData(), extra being r.ctx.extra.
getResponseData(re, extra) ==
  LET m1 == Put(extra, "result", re.Result)
      m2 == IF re.Error # "" THEN Put(Put(m1, "error", re.Error), "code", re.Code) ELSE m1
      m3 == Put(Put(Put(m2, "time", re.Time), "data", re.Data), "request_id", re.RequestId)
      m4 == IF re.RedirectURL # ""
            THEN IF re.RedirectCode # ""
                 THEN Put(Put(m3, "redirect_url", re.RedirectURL), "redirect_code", re.RedirectCode)
                 ELSE Put(m3, "redirect_url", re.RedirectURL)
            ELSE m3
      m5 == IF re.Token # "" THEN Put(m4, "token", re.Token) ELSE m4
      m6 == IF re.ErrorInfo # "" THEN Put(m5, "error_info", re.ErrorInfo) ELSE m5
  IN  IF re.QueryId # "" THEN Put(m6, "query_id", re.QueryId) ELSE m6

\* A Response and the extra mapping of its Context.
InitEnvelope ==
  /\ fn = "getResponseData"
  /\ farg \in [r : Envelopes, extra : ExtraMaps]
  /\ fout = Nil

\* A transport encodes the Response: r.getResponseData().
BuildEnvelope ==
  /\ fn = "getResponseData"
  /\ fout = Nil
  /\ fout' = [kind |-> "envelope", m |-> getResponseData(farg.r, farg.extra)]
  /\ UNCHANGED <<fn, farg>>
  /\ UNCHANGED <<pvars, bvars, cvars, lvars, tvars, hvars>>

\* ------------------------------------------------------------- SetHttp

MaxJsonDataLength == 10 * 2^20 + 1

MaxUrlEncodedDataLength == 2^20 + 1

MaxMultipartFormLength == 2^28 + 1

ErrLengthRequired ==
  [kind |-> "err", typ |-> "Error", msg |-> "Content-Length header is required for this request",
   status |-> 411, token |-> "error_length_required", allowed |-> <<>>, info |-> ""]

ErrRequestEntityTooLarge ==
  [kind |-> "err", typ |-> "Error", msg |-> "Request body is too large",
   status |-> 413, token |-> "error_request_entity_too_large", allowed |-> <<>>, info |-> ""]

\* What mime.ParseMediaType, a decoder, a multipart reader or GetBody returns
\* when it fails: an error that is no *Error.
ErrOf(what) ==
  [kind |-> "err", typ |-> "plain", msg |-> what, status |-> 0, token |-> "", allowed |-> <<>>, info |-> ""]

\* The values of the Content-Type header: none, the four SetHttp parses, and
\* another one.
ContentTypes ==
  {"", "application/json", "application/cbor", "application/x-www-form-urlencoded",
   "multipart/form-data", "text/plain"}

\* The documented limit of a media type, in bytes.
LimitOf(ct) ==
  IF ct \in {"application/json", "application/cbor"} THEN 10 * 2^20
  ELSE IF ct = "application/x-www-form-urlencoded" THEN 2^20
  ELSE 2^28

\* The body lengths tried: none, small, and around each limit.
Lengths ==
  {0, 1} \cup UNION {{l - 1, l, l + 1, l + 2} : l \in {2^20, 10 * 2^20, 2^28}}

\* The JSON objects a request conveys, as its body or in `_`: {"k": v}, given
\* as the JSON text of v.  The last number is 2^53 + 1.
JsonObjects ==
  {[is |-> "string", text |-> "a"], [is |-> "number", text |-> "1"],
   [is |-> "number", text |-> "9007199254740993"]}

\* The float64 nearest to a JSON number.
Float64(text) == IF text = "9007199254740993" THEN "9007199254740992" ELSE text

\* params["k"] with its Go type, after the JSON text of {"k": v} is decoded:
\* by a Decoder after UseNumber(), or by Unmarshal, which has no UseNumber.
Unmarshal(o, UseNumber) ==
  IF o.is = "string" THEN [type |-> "string", val |-> o.text]
  ELSE IF UseNumber THEN [type |-> "json.Number", val |-> o.text]
  ELSE [type |-> "float64", val |-> Float64(o.text)]

\* params["k"] after the CBOR encoding of {"k": v} is decoded.
CborDecode(o) ==
  IF o.is = "string" THEN [type |-> "string", val |-> o.text]
  ELSE [type |-> "uint64", val |-> o.text]

\* params["k"] when params is nil, when the application has set params, and
\* when params holds the fields of a form or of the query string.
NoValue == [type |-> "none", val |-> ""]

PresetValue == [type |-> "preset", val |-> ""]

FieldValue == [type |-> "string", val |-> "field"]

\* Largest number of SetHttp calls on one Context.
MaxCalls == 2

\* The requests tried.  ContentLength is -1 for a body of unknown length
\* (chunked), which has no Content-Length header; a request without a body
\* may have the header or not.  params and was are c.params before the call.
Requests ==
  {q \in [Method : Verbs, ContentType : ContentTypes, boundary : BOOLEAN,
          found : BOOLEAN, ContentLength : Lengths \cup {-1}, bodyLen : Lengths,
          wellFormed : BOOLEAN, underscore : {"none", "string", "other"},
          o : JsonObjects, params : {"nil", "preset"},
          was : {NoValue, PresetValue}, GetBody : BOOLEAN, call : {1}] :
     /\ q.found => q.ContentLength >= 0
     /\ ~q.found => q.ContentLength \in {-1, 0}
     /\ q.ContentLength >= 0 => q.bodyLen = q.ContentLength
     /\ q.ContentLength = -1 => q.bodyLen \in {1, 10 * 2^20, 10 * 2^20 + 2}
     /\ q.boundary => q.ContentType = "multipart/form-data"
     /\ q.GetBody => q.params = "nil" /\ q.ContentLength > 0
     /\ q.was = IF q.params = "nil" THEN NoValue ELSE PresetValue
     /\ q.o.text # "a" =>
          /\ q.wellFormed
          /\ \/ q.underscore = "string"
             \/ q.ContentType \in {"application/json", "application/cbor"}}

\* The requests of a later SetHttp call on the same Context: a GET, and a
\* POST of a small well-formed body with its Content-Length.
LaterRequests ==
  {q \in Requests :
     /\ q.Method \in {"GET", "POST"}
     /\ q.ContentType \in {"application/json", "application/x-www-form-urlencoded"}
     /\ q.ContentLength = 1 /\ q.found /\ q.wellFormed
     /\ q.underscore \in {"none", "string"}
     /\ q.params = "nil" /\ ~q.GetBody}

Returned(err, params, buffered) ==
  [err |-> err, params |-> params, buffered |-> buffered, value |-> NoValue]

WithValue(ret, v) == [ret EXCEPT !.value = v]

\* Whether SetHttp keeps the body for later use: the `else if` of the body.
Buffers(q) ==
  ~q.GetBody /\ q.ContentLength > 0 /\ q.ContentLength < MaxJsonDataLength

\* A decoder, or the multipart reader, on io.LimitReader(body, max): it fails
\* on a body that is malformed or that the reader cuts.
Decodes(q, max) == q.wellFormed /\ q.bodyLen <= max

\* The `_` parameter of a form or of the query string: JSON that replaces
\* every other parameter when it is a string.
Underscore(q, other, buffered, msg) ==
  IF q.underscore = "string"
  THEN IF q.wellFormed
       THEN WithValue(Returned(NoErr, "underscore", buffered), Unmarshal(q.o, FALSE))
       ELSE Returned(ErrOf(msg), "nil", buffered)
  ELSE WithValue(Returned(NoErr, other, buffered),
                 IF other = "nil" THEN NoValue ELSE FieldValue)

\* SetHttp: `switch ct`, for a POST, PATCH or PUT that has a body.
SetHttpBody(q) ==
  LET buffered == Buffers(q)
  IN  CASE q.ContentType \in {"application/json", "application/cbor"} ->
             IF q.ContentLength > MaxJsonDataLength
             THEN Returned(ErrRequestEntityTooLarge, "nil", buffered)
             ELSE IF Decodes(q, MaxJsonDataLength)
             THEN WithValue(Returned(NoErr, "body", buffered),
                            IF q.ContentType = "application/json"
                            THEN Unmarshal(q.o, TRUE) ELSE CborDecode(q.o))
             ELSE Returned(ErrOf("while reading request body"), "nil", buffered)
        [] q.ContentType = "application/x-www-form-urlencoded" ->
             IF q.ContentLength > MaxUrlEncodedDataLength
             THEN Returned(ErrRequestEntityTooLarge, "nil", buffered)
             ELSE Underscore(q, "form", buffered, "while reading json request body")
        [] q.ContentType = "multipart/form-data" ->
             IF q.ContentLength > MaxMultipartFormLength
             THEN Returned(ErrRequestEntityTooLarge, "nil", buffered)
             ELSE IF ~q.boundary THEN Returned(ErrOf("ErrMissingBoundary"), "nil", buffered)
             ELSE IF ~Decodes(q, MaxMultipartFormLength)
             THEN Returned(ErrOf("while reading multipart form data"), "nil", buffered)
             ELSE Underscore(q, "form", buffered, "while reading json request body")
        [] OTHER -> Returned(NoErr, "nil", buffered)

\* SetHttpResult without the test of c.params.
SetHttpReparses(q) ==
  IF q.Method \in {"POST", "PATCH", "PUT"}
  THEN IF q.ContentType = "" THEN Returned(ErrOf("mime: no media type"), "nil", FALSE)
       ELSE IF q.ContentLength = 0
       THEN IF ~q.found THEN Returned(ErrLengthRequired, "nil", FALSE)
            ELSE Returned(NoErr, "nil", FALSE)
       ELSE SetHttpBody(q)
  ELSE Underscore(q, IF q.underscore = "none" THEN "get" ELSE "nil", FALSE, "unmarshal")

\* What c.SetHttp(rw, req) returns, and c.params after it.
SetHttpResult(q) ==
  IF q.params # "nil" THEN WithValue(Returned(NoErr, q.params, FALSE), q.was)
  ELSE IF q.Method \in {"POST", "PATCH", "PUT"}
  THEN IF q.ContentType = "" THEN Returned(ErrOf("mime: no media type"), "nil", FALSE)
       ELSE IF q.ContentLength = 0
       THEN IF ~q.found THEN Returned(ErrLengthRequired, "nil", FALSE)
            ELSE Returned(NoErr, "nil", FALSE)
       ELSE SetHttpBody(q)
  ELSE Underscore(q, IF q.underscore = "none" THEN "get" ELSE "nil", FALSE, "unmarshal")

IdleHttp ==
  /\ hreq = [Method |-> "none"]
  /\ hres = Returned(NoErr, "nil", FALSE)
  /\ hpc = "idle"

\* A request has arrived and NewHttp has made its Context.
InitHttp ==
  /\ hreq \in Requests
  /\ hres = WithValue(Returned(NoErr, hreq.params, FALSE), hreq.was)
  /\ hpc = "new"

\* After a SetHttp that returned nil, the application is about to call
\* c.SetHttp(rw, q) on the same Context.
NextRequest(q) ==
  /\ hpc = "done"
  /\ hres.err = NoErr
  /\ hreq.call < MaxCalls
  /\ q \in LaterRequests
  /\ hreq' = [q EXCEPT !.params = hres.params, !.was = hres.value, !.call = hreq.call + 1]
  /\ hpc' = "new"
  /\ UNCHANGED hres
  /\ UNCHANGED <<pvars, bvars, cvars, lvars, tvars, fvars>>

\* err := res.SetHttp(rw, req)
SetHttp ==
  /\ hpc = "new"
  /\ hres' = SetHttpResult(hreq)
  /\ hpc' = "done"
  /\ UNCHANGED hreq
  /\ UNCHANGED <<pvars, bvars, cvars, lvars, tvars, fvars>>

\* ------------------------------------------------------ the specifications

IdlePipeline ==
  /\ origin = ""
  /\ headers = Nil
  /\ frame = ""
  /\ frameQid = ""
  /\ qid = ""
  /\ path = <<>>
  /\ verb = "GET"
  /\ userActs = NoActions
  /\ nReq = 0
  /\ nResp = 0
  /\ pc = "idle"
  /\ hi = 1
  /\ si = 1
  /\ r = "root"
  /\ obj = Nil
  /\ rawFlag = FALSE
  /\ objects = {}
  /\ invoked = <<>>
  /\ callRes = [val |-> Nil, err |-> NoErr]
  /\ branch = "none"
  /\ res = Nil
  /\ retErr = NoErr

\* One request through Response().
Init == InitPipeline /\ IdleBus /\ IdleConn /\ IdleTree /\ IdleHttp /\ IdleCalls

Next ==
  \/ setChildRequest
  \/ RequestHook
  \/ CallBegin
  \/ CallWalk
  \/ CallDispatch
  \/ Respond
  \/ ResponseHook
  \/ Return
  \/ \E o \in Origins : ServeHTTP(o)

Spec == Init /\ [][Next]_vars

\* The broadcast bus with two WebSocket clients.
InitBusSpec == IdlePipeline /\ InitBus /\ IdleConn /\ IdleTree /\ IdleHttp /\ IdleCalls

NextBus ==
  \/ BroadcastWS
  \/ SendWS
  \/ \E c \in Contexts, ev \in Topics, listen \in BOOLEAN : SetListen(c, ev, listen)
  \/ \E c \in Clients : Cancel(c)
  \/ \E c \in Clients : WsListenStart(c)
  \/ \E c \in Clients : WsListen(c)
  \/ \E c \in Clients : SockStall(c)
  \/ \E c \in Clients : SockDrain(c)

SpecBus == InitBusSpec /\ [][NextBus]_vars

\* The Contexts of two connections and their subscriptions.
InitTreeSpec == IdlePipeline /\ InitTree /\ IdleConn /\ IdleTree /\ IdleHttp /\ IdleCalls

NextTree ==
  \/ \E k \in Kids, parent \in Contexts : NewChild(k, parent)
  \/ \E c \in Contexts, ev \in Topics, listen \in BOOLEAN : SetListen(c, ev, listen)

SpecTree == InitTreeSpec /\ [][NextTree]_vars

\* Contexts made by New, NewHttp and NewChild, with their request ids.
InitIdsSpec ==
  /\ IdlePipeline /\ InitIds /\ IdleConn /\ InitContexts /\ IdleHttp /\ IdleCalls
  /\ \A c \in Clients : sec[c] = NoSec

NextIds ==
  \/ \E k \in Kids, parent \in Contexts : NewChild(k, parent)
  \/ \E k \in Kids, parent \in Contexts \cup {0}, given \in CarrierIds : New(k, parent, given)
  \/ \E k \in Kids, given \in CarrierIds : NewHttp(k, given)

SpecIds == InitIdsSpec /\ [][NextIds]_vars

\* Contexts made by New, NewHttp and NewChild from carriers without
\* request_id, and the objects requests store in them.
InitObjectsSpec == InitIdsSpec /\ \A c \in Clients : carried[c] = <<>>

NextObjects ==
  \/ \E k \in Kids, parent \in Contexts : NewChild(k, parent)
  \/ \E k \in Kids, parent \in Contexts \cup {0} : New(k, parent, <<>>)
  \/ \E k \in Kids : NewHttp(k, <<>>)
  \/ \E c \in Contexts, typ \in ObjectTypes : SetObject(c, typ, "stored")

SpecObjects == InitObjectsSpec /\ [][NextObjects]_vars

\* The Contexts of two connections and of their frames, with the user and
\* the flags the hooks set on them.  The connections were made from carriers
\* without request_id and with no objects attached.
InitSecSpec ==
  /\ IdlePipeline /\ InitIds /\ IdleConn /\ InitContexts /\ IdleHttp /\ IdleCalls
  /\ \A c \in Clients : carried[c] = <<>>
  /\ ~wrapped

NextSec ==
  \/ \E k \in Kids, parent \in Contexts : NewChild(k, parent)
  \/ \E c \in Contexts, user \in Users : SetUser(c, user)
  \/ \E c \in Contexts, ok \in BOOLEAN : SetCsrfValidated(c, ok)
  \/ \E c \in Contexts, p \in BOOLEAN : SetShowProtectedFields(c, p)

SpecSec == InitSecSpec /\ [][NextSec]_vars

\* One HTTP request through SetHttp.
InitHttpSpec == IdlePipeline /\ IdleBus /\ IdleConn /\ IdleTree /\ InitHttp /\ IdleCalls

NextHttp ==
  \/ SetHttp
  \/ \E q \in LaterRequests : NextRequest(q)

SpecHttp == InitHttpSpec /\ [][NextHttp]_vars

\* One long-lived connection, its requests and its broadcasts.
InitConnSpec == IdlePipeline /\ IdleBus /\ InitConn /\ IdleTree /\ IdleHttp /\ IdleCalls

NextConn ==
  \/ \E q \in Reqs : ReadRequest(q)
  \/ \E q \in Reqs : Progress(q)
  \/ \E q \in Reqs : HandlerReturn(q)
  \/ BroadcastJson
  \/ \E w \in Writers : Encode(w)
  \/ \E w \in Writers : WsWrite(w)
  \/ \E w \in Writers : WriteDone(w)
  \/ \E w \in Writers : WriteFail(w)
  \/ \E q \in Reqs : WsEncodeFail(q)
  \/ Register
  \/ LoopEnd

SpecConn == InitConnSpec /\ [][NextConn]_vars

\* One call of GetParamTo.
InitGetParamToSpec ==
  IdlePipeline /\ IdleBus /\ IdleConn /\ IdleTree /\ IdleHttp /\ InitGetParamTo

NextGetParamTo == GetParamTo

SpecGetParamTo == InitGetParamToSpec /\ [][NextGetParamTo]_vars

\* One query through the scope of Paginate.
InitPaginateSpec ==
  IdlePipeline /\ IdleBus /\ IdleConn /\ IdleTree /\ IdleHttp /\ InitPaginate

NextPaginate == Paginate

SpecPaginate == InitPaginateSpec /\ [][NextPaginate]_vars

\* One envelope built of a Response and the extra mapping.
InitEnvelopeSpec ==
  IdlePipeline /\ IdleBus /\ IdleConn /\ IdleTree /\ IdleHttp /\ InitEnvelope

NextEnvelope == BuildEnvelope

SpecEnvelope == InitEnvelopeSpec /\ [][NextEnvelope]_vars


\* =============================================================== claims

\* Call has run the walk to its end and then its last part.
Dispatched == pc \notin {"reqhooks", "walk"} /\ si > Len(Segments(path))

\* What Call invoked after the walk: neither a hook nor a Fetch.
CallOps == SelectSeq(invoked, LAMBDA e : e.op \notin {"RequestHook", "ResponseHook", "Fetch"})

\* Call invoked op once on the current class with arg and nothing else; it
\* returned one of vals, or the error op returned; or op panicked.
InvokedOnly(op, arg, vals) ==
  /\ Len(CallOps) = 1
  /\ CallOps[1].op = op
  /\ CallOps[1].node = r
  /\ CallOps[1].arg = arg
  /\ IF CallOps[1].err = NoErr THEN callRes.err = NoErr /\ callRes.val \in vals
     ELSE IF CallOps[1].err = ErrPanic THEN pc = "done" /\ res = panicResponse
     ELSE callRes = [val |-> Nil, err |-> CallOps[1].err]

\* Call invoked nothing after the walk and failed with e.
FailedWith(e) == CallOps = <<>> /\ callRes = [val |-> Nil, err |-> e]

C2_StaticMethod ==
  (Dispatched /\ HasMethod(path) /\ verb # "OPTIONS") =>
    IF ~Static(r, MethodName(path)) THEN FailedWith(ErrNotFound)
    ELSE IF verb \in {"GET", "HEAD", "POST"}
    THEN /\ InvokedOnly("Static", Params, ({ResultOf("Static")} \cup UserResponses))
         /\ obj # Nil => callRes.val # obj
    ELSE FailedWith(ErrMethodNotAllowed)

\* C2's case: POST User/123:method has fetched 123 and returned the result of
\* the static method.
C2_Witness ==
  /\ Dispatched
  /\ path = <<"User", "/", "123", ":", "method">>
  /\ verb = "POST"
  /\ obj.kind = "object"
  /\ \E i \in 1..Len(invoked) : invoked[i].op = "Fetch"
  /\ callRes = [val |-> ResultOf("Static"), err |-> NoErr]

\* Every registered request hook has run.
AllRequestHooksRan ==
  /\ Len(invoked) >= nReq
  /\ \A k \in 1..nReq : invoked[k].op = "RequestHook"

\* C3: the request hooks run in registration order and before anything else
\* is invoked; the dispatcher starts only after all of them; and when one
\* returns an error, nothing is invoked after it (no later hook, no action),
\* Call is not entered, and Response() returns the error response of that error.
C3_RequestHooks ==
  /\ \A i \in 1..Len(invoked) :
       invoked[i].op = "RequestHook" =>
         /\ i <= nReq
         /\ invoked[i].arg.i = i
         /\ invoked[i].err \in UserErrors =>
              /\ Len(invoked) = i
              /\ pc = "done"
              /\ res = errorResponse(invoked[i].err)
              /\ retErr = invoked[i].err
              /\ callRes = [val |-> Nil, err |-> NoErr]
              /\ branch = "none"
  /\ (\E i \in 1..Len(invoked) : invoked[i].op # "RequestHook") => AllRequestHooksRan
  /\ pc \in {"walk", "respond", "resphooks"} => AllRequestHooksRan

\* C3's case: the first of two request hooks failed with access_denied, the
\* second never ran and the response is that error's.
C3_Witness ==
  /\ nReq = 2
  /\ pc = "done"
  /\ Len(invoked) = 1
  /\ invoked[1].op = "RequestHook"
  /\ invoked[1].err = ErrAccessDenied
  /\ res.Result = "error"
  /\ res.Token = "error_access_denied"

\* C4: whenever a response hook returned an error, the response Response()
\* returns is the error response of that error, whatever the hook was given,
\* and no response hook ran after it.
C4_HookErrorReplaces ==
  pc = "done" =>
    \A i \in 1..Len(invoked) :
      (invoked[i].op = "ResponseHook" /\ invoked[i].err \in UserErrors) =>
        /\ res = errorResponse(invoked[i].err)
        /\ \A j \in (i + 1)..Len(invoked) : invoked[j].op # "ResponseHook"

\* C5: every response Response() returns has been given to all the response
\* hooks, in registration order.
C5_ResponseHooksAlways ==
  pc = "done" =>
    LET rh == SelectSeq(invoked, LAMBDA e : e.op = "ResponseHook")
    IN  /\ Len(rh) = nResp
        /\ \A k \in 1..Len(rh) : rh[k].arg.i = k

\* C6: when a hook, an action or a method panicked, Response() returns an
\* error response with status 500, token error_internal and the stack in Debug.
C6_PanicEnvelope ==
  (\E i \in 1..Len(invoked) : invoked[i].err = ErrPanic) =>
    /\ pc = "done"
    /\ res.Result = "error"
    /\ res.Code = 500
    /\ res.Token = "error_internal"
    /\ res.Debug = "stack"

\* C7: whenever the listener of a subscriber consumes an event of the bus,
\* the subscriber is written exactly one frame carrying the payload if it
\* listens for the topic the event was published to (every subscriber does
\* for "*", the topic of BroadcastWS), and no frame otherwise.  So with one
\* subscriber listening for "users" and one for "orders", SendWS(ctx,
\* "users", payload) gives one frame to the first only, and BroadcastWS gives
\* a frame to both.
C7_TopicDelivery ==
  [][\A c \in Clients :
       (lpc[c] = "loop" /\ rd[c].valid /\ rd'[c].valid /\ rd'[c].lag = rd[c].lag - 1)
         => frames'[c] = IF ListensFor(c, NextEvent(c).Topic)
                         THEN Append(frames[c], Frame(accept[c], Payload))
                         ELSE frames[c]]_vars

WireOf(q) == SelectSeq(wire, LAMBDA e : e.by = q)

C11_FramesConcurrent ==
  \A q \in Reqs :
    (/\ ckind = "ws"
     /\ req[q].st = "unread"
     /\ \A p \in Reqs : p < q => req[p].st # "unread")
      => ENABLED ReadRequest(q)

C13_TeardownCancels == loop = "ended" => InFlight \subseteq cancelled

\* C14: a listener whose Context is done, or whose reader is no longer
\* valid, can go on to its exit by itself: it has a step to take without any
\* event being published.
C14_ListenerExits ==
  \A c \in Clients :
    (lpc[c] = "loop" /\ (done[c] \/ ~rd[c].valid)) => ENABLED WsListen(c)

\* C15: ListensFor("*") is true on every Context, ListensFor(topic) gives
\* the same answer on every Context of a connection, and after
\* SetListen(topic, listen) on any Context of a connection, ListensFor(topic)
\* is listen on every Context of that connection and nothing has changed for
\* the other connection.
C15_OneSubscriptionSet ==
  /\ [](\A x \in Existing :
          /\ ListensFor(x, "*")
          /\ \A t \in Topics : ListensFor(x, t) = ListensFor(goTop(x), t))
  /\ [][\A x \in Existing, t \in Topics, listen \in BOOLEAN :
          SetListen(x, t, listen) =>
            \A y \in Existing :
              IF goTop(y) = goTop(x)
              THEN ListensFor(y, t)' = listen
              ELSE \A u \in Topics : ListensFor(y, u)' = ListensFor(y, u)]_vars

\* A connection with a child Context and a child of that child, which
\* listens for "users"; the other connection, with a child too, has listened
\* for a topic and no longer does.
C15_Witness ==
  /\ \E k, j \in Kids : up[k] = 1 /\ up[j] = k /\ made[j] = "NewChild"
  /\ \E k \in Kids : up[k] = 2
  /\ events[1] = [present |-> TRUE, set |-> {"users"}]
  /\ events[2] = [present |-> TRUE, set |-> {}]

\* C16: under OPTIONS Call invokes nothing: no Fetch, List, Create or Clear,
\* no static method, no ApiUpdate and no ApiDelete.  Hooks are all that is
\* ever invoked.
C16_OptionsInvokesNothing ==
  verb = "OPTIONS" =>
    \A i \in 1..Len(invoked) : invoked[i].op \in {"RequestHook", "ResponseHook"}

\* OPTIONS User/123:method on a class that has Fetch and the static method:
\* Call has walked over the id and returned the methods of a static method.
C16_Witness ==
  /\ verb = "OPTIONS"
  /\ path = <<"User", "/", "123", ":", "method">>
  /\ "Fetch" \in userActs.set
  /\ pc = "done"
  /\ obj = CorsSentinel
  /\ callRes.err = optionsResponder(<<"GET", "POST", "HEAD", "OPTIONS">>)

\* Whether Call, with verb v at the path of the request, would go on to
\* something else than a failure, for the class the walk ended on and an
\* object of some capabilities where the path addresses one.
WouldAccept(v) ==
  \E o \in IF obj = Nil THEN {Nil}
           ELSE {Object(r, <<>>, caps) : caps \in SUBSET {"Updatable", "Deletable"}} :
    DispatchPlan(v, path, r, o, ActionOf(r)).do # "fail"

\* C17: when Call answers OPTIONS with a list of methods, a verb is in the
\* list if and only if Call would accept it at the same path.
C17_AllowIsAccepted ==
  (pc = "respond" /\ verb = "OPTIONS" /\ callRes.err.kind = "err" /\ callRes.err.typ = "Options") =>
    \A v \in Verbs :
      (\E i \in 1..Len(callRes.err.allowed) : callRes.err.allowed[i] = v) <=> WouldAccept(v)

\* The Fetch entries of the log.
Fetches == SelectSeq(invoked, LAMBDA e : e.op = "Fetch")

\* C18 as stated: whenever Call returns for User/123/456 it has failed
\* not_found and Fetch was not invoked for 456.
C18_DoubleIdNotFound ==
  (pc = "respond" /\ path = <<"User", "/", "123", "/", "456">>) =>
    /\ callRes = [val |-> Nil, err |-> ErrNotFound]
    /\ \A i \in 1..Len(Fetches) : Fetches[i].arg # IdArg(<<"456">>)

\* C18: for every verb, once the first id of User/123/456 has given obj (the
\* object Fetch returned for 123, or the sentinel of OPTIONS), Call fails
\* not_found at the second id, and Fetch is not invoked for it: Fetch was
\* invoked once, for 123, or not at all under OPTIONS.
C18_DoubleIdAfterObject ==
  (/\ pc = "respond"
   /\ path = <<"User", "/", "123", "/", "456">>
   /\ \/ obj = CorsSentinel
      \/ obj.kind = "object" /\ obj.id = <<"123">>) =>
    /\ callRes = [val |-> Nil, err |-> ErrNotFound]
    /\ Fetches = IF verb = "OPTIONS" THEN <<>>
                 ELSE <<Invocation("Fetch", "User", IdArg(<<"123">>), NoErr)>>
    /\ CallOps = <<>>

\* DELETE User/123/456: Fetch has given a Deletable object for 123 and Call
\* has failed at 456.
C18_Witness ==
  /\ pc = "respond"
  /\ path = <<"User", "/", "123", "/", "456">>
  /\ verb = "DELETE"
  /\ obj = Object("User", <<"123">>, {"Deletable"})
  /\ callRes.err = ErrNotFound

\* A POST, PATCH or PUT of media type ct that SetHttp has handled, with a
\* Content-Length header that tells the size of a well-formed body.
SizedBody(ct) ==
  /\ hpc = "done"
  /\ hreq.Method \in {"POST", "PATCH", "PUT"}
  /\ hreq.params = "nil"
  /\ hreq.ContentType = ct
  /\ ct = "multipart/form-data" => hreq.boundary
  /\ hreq.found
  /\ hreq.wellFormed

\* C19: for each parsed media type with limit L, a POST/PATCH/PUT body of
\* exactly L bytes is accepted and a body of L+1 bytes fails with
\* error_request_entity_too_large.
C19_LimitIsExact ==
  \A ct \in ContentTypes \ {"", "text/plain"} :
    SizedBody(ct) =>
      /\ hreq.ContentLength = LimitOf(ct) => hres.err = NoErr /\ hres.params # "nil"
      /\ hreq.ContentLength = LimitOf(ct) + 1 => hres.err = ErrRequestEntityTooLarge

\* C20: a POST, PATCH or PUT without a Content-Length header fails with
\* error_length_required (411) and params stays absent, whatever its body
\* and transfer encoding.
C20_LengthRequired ==
  (/\ hpc = "done"
   /\ hreq.Method \in {"POST", "PATCH", "PUT"}
   /\ ~hreq.found)
  => hres.err = ErrLengthRequired /\ hres.params = "nil"

\* C21: the size limit of the media type is enforced before the body is
\* read: when SetHttp returns request_entity_too_large, it has not read the
\* body into memory.
C21_LimitBeforeRead ==
  (hpc = "done" /\ hres.err = ErrRequestEntityTooLarge) => ~hres.buffered

\* C22: for every error returned by the dispatcher or a hook whose unwrap
\* chain holds an Error value, the envelope's token and error_info are that
\* Error's Token and Info, and its code is the error's HTTP status, 500 when
\* the status is 0.
C22_ErrorInChain ==
  (retErr # NoErr /\ retErr.typ \in {"Error", "wrapped"}) =>
    /\ res.Result = "error"
    /\ res.Token = retErr.token
    /\ res.ErrorInfo = retErr.info
    /\ res.Code = IF retErr.status = 0 THEN 500 ELSE retErr.status

\* C23: every envelope produced for a frame that carried query_id q carries
\* query_id equal to q.
C23_QueryIdEchoed ==
  (frameQid # "" /\ res # Nil) => res.QueryId = frameQid

\* C24: no two Contexts made by New, NewHttp or NewChild have the same
\* request id.
C24_RequestIdUnique ==
  \A x, y \in Existing : x # y => reqid[x] # reqid[y]

\* C25 as claimed: whenever the carrier given to New, NewHttp or NewChild
\* supplies a non-empty request_id, the request id of the new Context is
\* that value.
C25_CarrierIdAdopted ==
  \A x \in Existing : carried[x] # <<>> => reqid[x] = carried[x]

\* C25: whenever the carrier given to New or NewHttp supplies a non-empty
\* request_id, the request id of the new Context is that value; NewChild,
\* whose carrier is the parent Context, draws a new request id that differs
\* from the parent's.
C25_NewAdoptsChildDraws ==
  \A x \in Existing :
    /\ (made[x] \in {"New", "NewHttp"} /\ carried[x] # <<>>) => reqid[x] = carried[x]
    /\ made[x] = "NewChild" =>
         /\ carried[x] = reqid[up[x]]
         /\ reqid[x] # carried[x]
         /\ reqid[x] \in {UuidNames[n] : n \in 1..uuids}

\* New has adopted the request_id of an upstream carrier, New has adopted
\* that of a Context, NewHttp has adopted one, and NewChild has made a child.
C25_Witness ==
  /\ \E x \in Kids : made[x] = "New" /\ up[x] = 0 /\ reqid[x] = <<"upstream">>
  /\ \E x \in Kids : made[x] = "New" /\ up[x] # 0 /\ reqid[x] = reqid[up[x]]
  /\ \E x \in Clients : carried[x] = <<"upstream">>
  /\ \E x \in Kids : made[x] = "NewChild"

\* The request that sends as an application/json body the object that q
\* sends in the `_` field of its form.
JsonTwin(q) == [q EXCEPT !.ContentType = "application/json", !.underscore = "none"]

\* C26: a url-encoded POST body whose `_` field holds the JSON text of an
\* object yields the same params, with the same value types, as a POST with
\* that object as an application/json body.
C26_UnderscoreSameAsJson ==
  (/\ hpc = "done"
   /\ hreq.Method \in {"POST", "PATCH", "PUT"}
   /\ hreq.params = "nil"
   /\ hreq.ContentType = "application/x-www-form-urlencoded"
   /\ hreq.underscore = "string"
   /\ hreq.bodyLen <= LimitOf(hreq.ContentType)
   /\ hres.err = NoErr)
  => /\ SetHttpResult(JsonTwin(hreq)).err = NoErr
     /\ hres.value = SetHttpResult(JsonTwin(hreq)).value

\* C27 as claimed: after SetHttp has returned successfully once on a
\* Context, a later SetHttp call on it leaves params unchanged.
C27_NeverReparsed ==
  (hpc = "done" /\ hreq.call > 1) =>
    hres.params = hreq.params /\ hres.value = hreq.was

\* C27: a SetHttp call on a Context whose params is not nil returns nil and
\* leaves params unchanged, whatever the request; a call on a Context whose
\* params is nil, also after an earlier call that returned nil, parses it.
C27_ParsedOnce ==
  (hpc = "done" /\ hreq.params # "nil") =>
    /\ hres.err = NoErr
    /\ hres.params = hreq.params
    /\ hres.value = hreq.was

\* A second SetHttp call, with a GET request that has a `_` parameter, on a
\* Context whose params a first call decoded from a JSON body.
C27_Witness ==
  /\ hpc = "done"
  /\ hreq.call = 2
  /\ hreq.Method = "GET"
  /\ hreq.underscore = "string"
  /\ hreq.wellFormed
  /\ hreq.params = "body"
  /\ hres.value = [type |-> "json.Number", val |-> "1"]

\* C28: the map attached with WithObject is never modified, no two Contexts
\* have the same object map, and SetObject (like the dispatcher's caching,
\* which writes the same way) on one Context changes neither the attached
\* map nor what any other Context has in its map.
C28_OwnObjectMap ==
  /\ [](/\ heap[Attached] = AttachedObjects
        /\ \A x \in Existing :
             /\ omap[x] # Attached
             /\ \A y \in Existing \ {x} : omap[x] # omap[y])
  /\ [][\A c \in Existing, typ \in ObjectTypes, v \in ObjectValues :
          SetObject(c, typ, v) =>
            /\ heap'[Attached] = heap[Attached]
            /\ heap'[omap[c]][typ] = v
            /\ \A y \in Existing \ {c} : heap'[omap[y]] = heap[omap[y]]]_vars

\* Under WithObject, a Context has replaced the attached object in its map
\* and has made a child after that; the child has the attached object, and
\* has stored an object of its own that its parent does not have.
C28_Witness ==
  /\ wrapped
  /\ \E k \in Kids :
       /\ made[k] = "NewChild"
       /\ heap[omap[up[k]]]["user"] = "stored"
       /\ heap[omap[k]] = [AttachedObjects EXCEPT !["item"] = "stored"]
       /\ heap[omap[up[k]]]["item"] = ""

\* C29: every HTTP response served by Response.ServeHTTP, of every kind,
\* carries Access-Control-Allow-Credentials: true and an
\* Access-Control-Allow-Origin equal to the request's Origin when it has one
\* and to * when it has none.
C29_CorsOnEveryResponse ==
  headers # Nil =>
    /\ headers.AllowCredentials = "true"
    /\ headers.AllowOrigin = IF origin # "" THEN origin ELSE "*"

\* C30: on a WebSocket connection, the terminal envelope and every progress
\* envelope of a frame are written with the message type of the frame they
\* answer, text for a text frame and binary for a binary frame, whatever
\* media type was negotiated at the upgrade.
C30_FrameTypeMatches ==
  ckind = "ws" =>
    \A i \in 1..Len(wire) :
      wire[i].typ \in {"progress", "terminal"} =>
        /\ mt[wire[i].by] \in {"text", "binary"}
        /\ wtype[i] = mt[wire[i].by]

\* A binary frame on a connection that negotiated JSON has had a progress
\* envelope and its terminal envelope written as binary, and a text frame
\* on the same connection has been answered as text.
C30_Witness ==
  /\ ckind = "ws"
  /\ negotiated = "application/json"
  /\ \E i, j, k \in 1..Len(wire) :
       /\ wire[i].typ = "progress" /\ wire[j].typ = "terminal"
       /\ wire[i].by = wire[j].by
       /\ mt[wire[i].by] = "binary"
       /\ wtype[i] = "binary" /\ wtype[j] = "binary"
       /\ wire[k].typ = "terminal" /\ mt[wire[k].by] = "text" /\ wtype[k] = "text"

\* C31: when publishers overrun a lagging reader (more than RingCap events
\* appended since its cursor), the reader re-syncs and the client's wsListen
\* goes on: in a run where no connection ends, no wsListen has returned, and
\* a client whose socket takes writes has not stopped reading the ring.
C31_OverrunKeepsListener ==
  scen = "flood" =>
    \A c \in Clients :
      /\ lpc[c] # "exited"
      /\ rd[c].open => rd[c].valid

\* C32: the subscription set is absent whenever it has no member: after any
\* sequence of SetListen calls, c.events of every top-most Context is nil or
\* holds at least one topic.
C32_EmptySetIsAbsent ==
  \A x \in Contexts :
    (x \in Existing /\ goTop(x) = x /\ events[x].present) => events[x].set # {}

\* The terminal envelopes of request q on the wire.
TerminalsOf(q) == SelectSeq(wire, LAMBDA e : e.by = q /\ e.typ = "terminal")

\* C33: for every frame the loop of a WebSocket or of a stream socket has
\* read and dispatched, exactly one terminal envelope is written to the
\* connection: never more than one, and one once its request is over,
\* however many progress envelopes it sent and however the frames interleave.
C33_OneTerminalPerFrame ==
  \A q \in Reqs :
    /\ Len(TerminalsOf(q)) <= 1
    /\ req[q].st = "done" => Len(TerminalsOf(q)) = 1

\* C34: when parameter v is present, GetParamTo(v, &obj) leaves in obj the
\* value of parameter v converted to obj's type and returns nil; when it is
\* absent, it returns a not-exist error and leaves obj as it was.
C34_AssignsTheValue ==
  (fn = "GetParamTo" /\ fout # Nil) =>
    LET sv == GetParam(farg.params, farg.v)
    IN  IF sv = NilValue
        THEN fout.err = ErrNotExist /\ fout.obj = farg.obj
        ELSE sv.t \in {"string", "int"} =>
               \/ [err |-> fout.err, val |-> fout.obj] \in Assign(farg.typ, sv)
               \/ fout.err # NoErr /\ \E a \in Assign(farg.typ, sv) : a.err # NoErr

\* C35: for every page_no, results_per_page and resultsPerPage argument, the
\* scope of Paginate applies a limit between 1 and 100, which is the request
\* value when that is in 1..100 and the default if not (25 when the argument
\* is <= 0), and an offset of (page - 1) * limit with page at least 1.
C35_LimitWithinBounds ==
  (fn = "Paginate" /\ fout # Nil) =>
    LET rpp  == farg.results_per_page
        page == IF farg.page_no = NilValue \/ farg.page_no.n < 1 THEN 1 ELSE farg.page_no.n
    IN  /\ fout.limit >= 1 /\ fout.limit <= 100
        /\ fout.limit = IF rpp # NilValue /\ rpp.n \in 1..100 THEN rpp.n
                        ELSE IF farg.resultsPerPage <= 0 THEN 25
                        ELSE farg.resultsPerPage
        /\ fout.offset = (page - 1) * fout.limit

\* C36: Response() never returns a nil Response: on every path (request-hook
\* error, dispatcher error, response-hook error, passed-through Response,
\* success, panic) the Response it returns is non-nil and linked to its
\* Context, so a transport that serves it dereferences no nil.
C36_ResponseLinked ==
  pc = "done" => (res # Nil /\ res.ctx = "c")

\* The keys of the envelope that hold a value of the Response re, and that
\* value: the four that are always written, and those written when the
\* Response has a value for them.
OwnEntries(re) ==
  {<<"result", re.Result>>, <<"time", re.Time>>, <<"data", re.Data>>,
   <<"request_id", re.RequestId>>}
    \cup (IF re.Error # "" THEN {<<"error", re.Error>>, <<"code", re.Code>>} ELSE {})
    \cup (IF re.RedirectURL # "" THEN {<<"redirect_url", re.RedirectURL>>} ELSE {})
    \cup (IF re.RedirectURL # "" /\ re.RedirectCode # ""
          THEN {<<"redirect_code", re.RedirectCode>>} ELSE {})
    \cup (IF re.Token # "" THEN {<<"token", re.Token>>} ELSE {})
    \cup (IF re.ErrorInfo # "" THEN {<<"error_info", re.ErrorInfo>>} ELSE {})
    \cup (IF re.QueryId # "" THEN {<<"query_id", re.QueryId>>} ELSE {})

\* C37 as stated: result, time, data and request_id hold the Response's own
\* values, and every other entry of the extra mapping is in the envelope
\* unchanged.
C37_OnlyFourReplaced ==
  (fn = "getResponseData" /\ fout # Nil) =>
    /\ fout.m["result"] = farg.r.Result /\ fout.m["time"] = farg.r.Time
    /\ fout.m["data"] = farg.r.Data /\ fout.m["request_id"] = farg.r.RequestId
    /\ \A k \in DOMAIN farg.extra \ {"result", "time", "data", "request_id"} :
         k \in DOMAIN fout.m /\ fout.m[k] = farg.extra[k]

\* C37, amended: in every envelope, result, time, data and request_id hold
\* the Response's own values, and so do error, code, redirect_url,
\* redirect_code, token, error_info and query_id when the Response has a
\* value for them; no entry of the extra mapping replaces any of these, every
\* other extra entry is in the envelope unchanged, and the envelope has no
\* other key.
C37_OwnKeysWin ==
  (fn = "getResponseData" /\ fout # Nil) =>
    LET own == OwnEntries(farg.r)
        ownKeys == {e[1] : e \in own}
    IN  /\ \A e \in own : e[1] \in DOMAIN fout.m /\ fout.m[e[1]] = e[2]
        /\ \A k \in DOMAIN farg.extra \ ownKeys :
             k \in DOMAIN fout.m /\ fout.m[k] = farg.extra[k]
        /\ DOMAIN fout.m = ownKeys \cup DOMAIN farg.extra

\* The envelope of an error with a token, on a Context whose extra mapping
\* has result, code, token and cache: the first three hold the Response's
\* values, cache the application's.
C37_Witness ==
  /\ fn = "getResponseData" /\ fout # Nil
  /\ farg.r.Result = "error" /\ farg.r.Token # ""
  /\ {"result", "code", "token", "cache"} \subseteq DOMAIN farg.extra
  /\ fout.m["result"] = "error" /\ fout.m["code"] = "403"
  /\ fout.m["token"] = "error_access_denied" /\ fout.m["cache"] = "extra"

\* C38: subscriptions of different connections do not interfere.  No
\* Context listens for a named topic before a SetListen, and the answer of
\* ListensFor(topic) on a Context changes only in a SetListen for that topic
\* made on a Context of the same connection: a SetListen on connection A, on
\* its Context or on any of its children, changes no answer on connection B
\* (no step changes the answers of two connections), so wsListen, which writes an event only when ListensFor says so, writes
\* no event of a named topic to a client that did not subscribe to it.
C38_ConnectionsIsolated ==
  /\ \A y \in Existing, u \in Topics : ~ListensFor(y, u)
  /\ [][\A y \in Existing, u \in Topics :
          ListensFor(y, u)' # ListensFor(y, u) =>
            \E x \in Existing, listen \in BOOLEAN :
              goTop(x) = goTop(y) /\ SetListen(x, u, listen)]_vars
  /\ [][\A y, z \in Existing, u, w \in Topics :
          (ListensFor(y, u)' # ListensFor(y, u) /\ ListensFor(z, w)' # ListensFor(z, w))
            => goTop(y) = goTop(z)]_vars

\* Both connections have a child Context; connection 1 listens for "users"
\* and connection 2 for "orders", and each child answers as its connection.
C38_Witness ==
  /\ \E k, j \in Kids :
       /\ up[k] = 1 /\ up[j] = 2
       /\ ListensFor(k, "users") /\ ~ListensFor(k, "orders")
       /\ ListensFor(j, "orders") /\ ~ListensFor(j, "users")
  /\ events[1].set = {"users"}
  /\ events[2].set = {"orders"}

\* C39: a WebSocket frame that fails to decode, or that decodes without a
\* path, is answered by one error envelope, with no request hook and no
\* action of the dispatcher run, and handleWebsocket goes on to read the next
\* frame: once NewChild is over, the handler has not crashed, the error
\* Response it writes is made, and nothing was invoked.
C39_BadFrameAnswered ==
  (frame # "" /\ pc # "frame" /\ (frame # "object" \/ path = <<>>)) =>
    /\ pc = "done"
    /\ res # Nil /\ res.Result = "error"
    /\ invoked = <<>>

\* C40: a per-frame child Context starts with the user object, the
\* CSRF-validated flag and the show-protected flag its connection Context has
\* when the frame is read, and SetUser, SetCsrfValidated or
\* SetShowProtectedFields called on a Context changes those values on no
\* other Context, neither its parent nor another child.
C40_ChildSecurityOwn ==
  /\ [][\A k \in Kids :
          (made[k] = "" /\ made'[k] = "NewChild") =>
            /\ sec'[k] = sec[up'[k]]
            /\ \A x \in Contexts \ {k} : sec'[x] = sec[x]]_vars
  /\ [][\A c \in Existing :
          (\/ \E user \in Users : SetUser(c, user)
           \/ \E ok \in BOOLEAN : SetCsrfValidated(c, ok)
           \/ \E p \in BOOLEAN : SetShowProtectedFields(c, p))
            => \A x \in Contexts \ {c} : sec'[x] = sec[x]]_vars

\* The connection's hooks validated the CSRF token and set user alice; a
\* frame's Context started with both and was then given user bob; the
\* connection and the Context of a later frame still have alice.
C40_Witness ==
  /\ sec[1] = [user |-> "alice", csrfOk |-> TRUE, showProt |-> FALSE]
  /\ \E k, j \in Kids :
       /\ k < j /\ up[k] = 1 /\ up[j] = 1
       /\ sec[k] = [user |-> "bob", csrfOk |-> TRUE, showProt |-> FALSE]
       /\ sec[j] = sec[1]

====
